---- MODULE Spec2Model ----
(***************************************************************************)
(* Master board control core: the RobustUart frame codec                   *)
(* (src/src/robust_uart.cpp) and the GameManager inventory reconciler with *)
(* its attraction driver (src/src/GameManager.cpp).                        *)
(***************************************************************************)
EXTENDS Integers, Sequences, FiniteSets, TLC

VARIABLES
    robustUart,                 \* the RobustUart object: rxState, rxLen, rxIndex, rxPayload, rxCrc, counters
    rxStream,                   \* bytes on the serial line not yet handed to processByte
    scenario,                   \* how rxStream was composed (garbage, frames, corruption)
    fed,                        \* number of bytes handed to processByte so far
    retLog,                     \* return value of every processByte call so far
    lastCall,                   \* decoder state right before the last decoder call, and which call it was
    uartPowerplants,            \* GameManager::uartPowerplants
    pendingDecreases,           \* GameManager::pendingDecreases
    lastUartAttractionUpdate,   \* GameManager::lastUartAttractionUpdate
    millis,                     \* the Arduino millisecond clock, unsigned 32 bit
    ticks,                      \* number of clock advances so far (bounds the behaviour)
    powerPlants,                \* GameManager::powerPlants[0 .. powerPlantCount-1], the registered local channels
    espApi,                     \* GameManager::espApi: what the server API object answers, or NullApi
    uartTx,                     \* frames handed to uartWriteFunction during the most recent handler call
    lastRetranslationPing,      \* GameManager::lastRetranslationPing
    lastPingRequest,            \* GameManager::lastPingRequest
    retranslationConnected,     \* GameManager::retranslationConnected
    serialNotices,              \* number of "Connected" and of "Disconnected" lines printed so far
    loopTask,                   \* the loop task: which shared object the handler it is in is writing
    ioTask,                     \* the IO task (updateDisplays): which shared object it is reading
    ioSeen                      \* what the last finished read of the IO task obtained

codecVars == <<robustUart, rxStream, scenario, fed, retLog, lastCall>>
gmVars == <<uartPowerplants, pendingDecreases, lastUartAttractionUpdate, millis, ticks>>
driverVars == <<powerPlants, espApi>>
taskVars == <<loopTask, ioTask, ioSeen>>
linkVars == <<lastRetranslationPing, lastPingRequest, retranslationConnected, serialNotices>>
vars == <<robustUart, rxStream, scenario, fed, retLog, lastCall,
          uartPowerplants, pendingDecreases, lastUartAttractionUpdate, millis, ticks,
          powerPlants, espApi, uartTx,
          lastRetranslationPing, lastPingRequest, retranslationConnected, serialNotices,
          loopTask, ioTask, ioSeen>>

(***************************************************************************)
(* Bounds of the model.                                                    *)
(***************************************************************************)
MaxPayloadLen == 2      \* longest payload the sender side of the model frames
MaxGarbage == 2         \* most garbage bytes put on the line before or after frames
MaxAmount == 2          \* largest device count a report carries
MaxReportLen == 2       \* most (type, count) pairs in one report
MaxTicks == 2           \* clock advances in one behaviour
MaxLinkTicks == 4       \* clock advances in one behaviour of the link-health specification
MaxKindTicks == 1       \* clock advances in one behaviour of the kinds' specification
MaxWrapTicks == 4       \* clock advances in one behaviour of the clock-wrap specification
MaxCounted == 3         \* the statistics counters of the resync specification count modulo MaxCounted + 1

PayloadBytes == {1, 170}            \* byte values payloads are built from (0xAA included)
GarbageBytes == {0, 85, 170}        \* byte values of line garbage (both sync values included)
CrcFlips == {1, 128}                \* XOR masks applied to one CRC byte by line corruption
ReportTypes == {1}                  \* the device type a report names with every count up to MaxAmount
OtherTypes == {2}                   \* a second valid device type, reported with the counts below
OtherAmounts == {1}
InvalidTypes == {0, 9}              \* types outside the enum: zero and one above it
InvalidAmounts == {1}
IngestAmounts == {0, 1}             \* counts of the valid type in reports that also name invalid types
TickSteps == {250}                  \* milliseconds the clock may advance by in one step

(***************************************************************************)
(* Fixed-width arithmetic.                                                 *)
(***************************************************************************)
RECURSIVE BitXor(_, _)
BitXor(a, b) ==
    IF a = 0 THEN b
    ELSE IF b = 0 THEN a
    ELSE (((a % 2) + (b % 2)) % 2) + 2 * BitXor(a \div 2, b \div 2)

RECURSIVE BitOr(_, _)
BitOr(a, b) ==
    IF a = 0 THEN b
    ELSE IF b = 0 THEN a
    ELSE (IF (a % 2) = 1 \/ (b % 2) = 1 THEN 1 ELSE 0) + 2 * BitOr(a \div 2, b \div 2)

U16(x) == x % 65536

\* An unsigned 32-bit value (unsigned long) is kept as <<high 16 bits, low 16 bits>>.
Zero32 == <<0, 0>>
\* a + n modulo 2^32, for 0 <= n < 65536
Add32(a, n) == <<(a[1] + ((a[2] + n) \div 65536)) % 65536, (a[2] + n) % 65536>>
\* a - b modulo 2^32, as the unsigned subtraction computes it
Sub32(a, b) ==
    LET borrow == IF a[2] < b[2] THEN 1 ELSE 0
    IN  <<(a[1] - b[1] - borrow + 65536) % 65536, (a[2] - b[2] + 65536) % 65536>>
\* a < n and a >= n, for 0 <= n < 65536
Lt32(a, n) == a[1] = 0 /\ a[2] < n
Ge32(a, n) == ~Lt32(a, n)

(***************************************************************************)
(* RobustUart: CRC16-CCITT.                                                *)
(***************************************************************************)
SYNC1 == 170
SYNC2 == 85
MAX_PAYLOAD_SIZE == 250

\* one pass of the inner loop: shift left, XOR the polynomial when the top bit was set
CrcShift(crc) ==
    IF crc >= 32768 THEN U16(BitXor(crc * 2, 4129)) ELSE U16(crc * 2)

\* the inner loop; each pass yields its value before the next one starts
RECURSIVE CrcShifts(_, _)
CrcShifts(crc, j) ==
    IF j = 0 THEN crc
    ELSE CHOOSE r \in {CrcShifts(c, j - 1) : c \in {CrcShift(crc)}} : TRUE

CrcByte(crc, byte) == CrcShifts(BitXor(crc, byte * 256), 8)

RECURSIVE CrcFrom(_, _, _)
CrcFrom(crc, data, i) ==
    IF i > Len(data) THEN crc
    ELSE CHOOSE r \in {CrcFrom(c, data, i + 1) : c \in {CrcByte(crc, data[i])}} : TRUE

\* mutant: the register starts at zero
crc16_ccitt_ZeroInit(data) == CrcFrom(0, data, 1)

crc16_ccitt(data) == CrcFrom(65535, data, 1)

(***************************************************************************)
(* RobustUart: encoder.  The result is the byte sequence handed to the     *)
(* write function; <<>> stands for "returned false, nothing written".      *)
(***************************************************************************)
\* mutant: the CRC is written low byte first
sendFrame_CrcLowFirst(payload) ==
    IF Len(payload) = 0 \/ Len(payload) > MAX_PAYLOAD_SIZE
    THEN <<>>
    ELSE LET crc == crc16_ccitt(<<Len(payload)>> \o payload)
         IN  <<SYNC1, SYNC2, Len(payload)>> \o payload
                 \o <<crc % 256, (crc \div 256) % 256>>

sendFrame(payload) ==
    IF Len(payload) = 0 \/ Len(payload) > MAX_PAYLOAD_SIZE
    THEN <<>>
    ELSE LET crc == crc16_ccitt(<<Len(payload)>> \o payload)
         IN  <<SYNC1, SYNC2, Len(payload)>> \o payload
                 \o <<(crc \div 256) % 256, crc % 256>>

(***************************************************************************)
(* RobustUart: decoder.                                                    *)
(***************************************************************************)
RxStates == {"WAIT_SYNC1", "WAIT_SYNC2", "READ_LEN", "READ_PAYLOAD",
             "READ_CRC_H", "READ_CRC_L", "FRAME_READY"}

resetRx(u) ==
    [u EXCEPT !.rxState = "WAIT_SYNC1", !.rxLen = 0, !.rxIndex = 0, !.rxCrc = 0]

\* The buffer uint8_t rxPayload[MAX_PAYLOAD_SIZE] is kept as the function from
\* the indices that hold a non-zero byte to that byte; every other index holds 0.
ZeroBuffer == <<>>
BufAt(buf, i) == IF i \in DOMAIN buf THEN buf[i] ELSE 0
BufWrite(buf, i, byte) ==
    IF i < 0 \/ i >= MAX_PAYLOAD_SIZE THEN buf
    ELSE [j \in (DOMAIN buf \cup {i}) \ (IF byte = 0 THEN {i} ELSE {}) |->
              IF j = i THEN byte ELSE buf[j]]

\* the constructor: resetRx(), zeroed payload buffer, zeroed counters
NewRobustUart ==
    [rxState |-> "WAIT_SYNC1", rxLen |-> 0, rxIndex |-> 0, rxCrc |-> 0,
     rxPayload |-> ZeroBuffer,
     framesReceived |-> 0, crcErrors |-> 0, syncErrors |-> 0]

\* the bytes the CRC is computed over on reception: rxLen, then rxPayload[0 .. rxLen-1]
RxCrcData(u) == <<u.rxLen>> \o [i \in 1 .. u.rxLen |-> BufAt(u.rxPayload, i - 1)]

\* case WAIT_SYNC1
OnWaitSync1(u, byte) ==
    IF byte = SYNC1
    THEN [u |-> [u EXCEPT !.rxState = "WAIT_SYNC2"], ret |-> FALSE]
    ELSE [u |-> [u EXCEPT !.syncErrors = @ + 1], ret |-> FALSE]

\* mutant: a byte that is no sync value is counted but the decoder keeps waiting
OnWaitSync2_KeepWaiting(u, byte) ==
    IF byte = SYNC2
    THEN [u |-> [u EXCEPT !.rxState = "READ_LEN"], ret |-> FALSE]
    ELSE [u |-> [u EXCEPT !.syncErrors = @ + 1], ret |-> FALSE]

\* mutant: any byte other than SYNC2 sends the decoder back to WAIT_SYNC1
OnWaitSync2_NoRestart(u, byte) ==
    IF byte = SYNC2
    THEN [u |-> [u EXCEPT !.rxState = "READ_LEN"], ret |-> FALSE]
    ELSE [u |-> [u EXCEPT !.syncErrors = @ + 1, !.rxState = "WAIT_SYNC1"],
          ret |-> FALSE]

\* case WAIT_SYNC2
OnWaitSync2(u, byte) ==
    IF byte = SYNC2
    THEN [u |-> [u EXCEPT !.rxState = "READ_LEN"], ret |-> FALSE]
    ELSE [u |-> [u EXCEPT !.syncErrors = @ + 1,
                          !.rxState = IF byte = SYNC1 THEN "WAIT_SYNC2"
                                                      ELSE "WAIT_SYNC1"],
          ret |-> FALSE]

\* mutant: every length byte is taken as announced
OnReadLen_AnyLength(u, byte) ==
    [u |-> [u EXCEPT !.rxLen = byte, !.rxIndex = 0, !.rxState = "READ_PAYLOAD"],
     ret |-> FALSE]

\* case READ_LEN
OnReadLen(u, byte) ==
    IF byte > 0 /\ byte <= MAX_PAYLOAD_SIZE
    THEN [u |-> [u EXCEPT !.rxLen = byte, !.rxIndex = 0, !.rxState = "READ_PAYLOAD"],
          ret |-> FALSE]
    ELSE [u |-> resetRx([u EXCEPT !.syncErrors = @ + 1]), ret |-> FALSE]

\* case READ_PAYLOAD: rxPayload[rxIndex++] = byte, rxIndex being a uint8_t
OnReadPayload(u, byte) ==
    LET idx == (u.rxIndex + 1) % 256
    IN  [u |-> [u EXCEPT !.rxPayload = BufWrite(@, u.rxIndex, byte),
                         !.rxIndex = idx,
                         !.rxState = IF idx >= u.rxLen THEN "READ_CRC_H"
                                                       ELSE "READ_PAYLOAD"],
         ret |-> FALSE]

\* case READ_CRC_H
OnReadCrcH(u, byte) ==
    [u |-> [u EXCEPT !.rxCrc = U16(byte * 256), !.rxState = "READ_CRC_L"],
     ret |-> FALSE]

\* mutant: a CRC mismatch is counted but the decoder is not reset
OnReadCrcL_NoReset(u, byte) ==
    LET crc == BitOr(u.rxCrc, byte)
        expectedCrc == crc16_ccitt(RxCrcData(u))
    IN  IF crc = expectedCrc
        THEN [u |-> [u EXCEPT !.rxCrc = crc, !.framesReceived = @ + 1,
                              !.rxState = "FRAME_READY"],
              ret |-> TRUE]
        ELSE [u |-> [u EXCEPT !.rxCrc = crc, !.crcErrors = @ + 1], ret |-> FALSE]

\* case READ_CRC_L
OnReadCrcL(u, byte) ==
    LET crc == BitOr(u.rxCrc, byte)
        expectedCrc == crc16_ccitt(RxCrcData(u))
    IN  IF crc = expectedCrc
        THEN [u |-> [u EXCEPT !.rxCrc = crc, !.framesReceived = @ + 1,
                              !.rxState = "FRAME_READY"],
              ret |-> TRUE]
        ELSE [u |-> resetRx([u EXCEPT !.crcErrors = @ + 1]), ret |-> FALSE]

\* the switch, for a decoder that is not in FRAME_READY:
\* [u |-> the object after the call, ret |-> the return value]
ProcessByteCase(u, byte) ==
    CASE u.rxState = "WAIT_SYNC1" -> OnWaitSync1(u, byte)
      [] u.rxState = "WAIT_SYNC2" -> OnWaitSync2(u, byte)
      [] u.rxState = "READ_LEN" -> OnReadLen(u, byte)
      [] u.rxState = "READ_PAYLOAD" -> OnReadPayload(u, byte)
      [] u.rxState = "READ_CRC_H" -> OnReadCrcH(u, byte)
      [] u.rxState = "READ_CRC_L" -> OnReadCrcL(u, byte)

\* mutant: a decoder in FRAME_READY ignores the byte and stays there
processByte_StayReady(u, byte) ==
    IF u.rxState = "FRAME_READY"
    THEN [u |-> u, ret |-> FALSE]
    ELSE ProcessByteCase(u, byte)

\* processByte: in FRAME_READY the decoder resets itself and processes the byte again
processByte(u, byte) ==
    IF u.rxState = "FRAME_READY"
    THEN ProcessByteCase(resetRx(u), byte)
    ELSE ProcessByteCase(u, byte)

getPayload(u) == [i \in 1 .. u.rxLen |-> BufAt(u.rxPayload, i - 1)]
getPayloadLength(u) == u.rxLen


(***************************************************************************)
(* The serial line of the codec specification.  A line carries leading     *)
(* garbage, a first frame (possibly with one CRC byte altered), a second   *)
(* frame and trailing garbage; an empty payload stands for "no frame",     *)
(* since sendFrame writes nothing for it.                                  *)
(***************************************************************************)
Payloads == UNION {[1 .. n -> PayloadBytes] : n \in 1 .. MaxPayloadLen}
GarbageSeqs == UNION {[1 .. n -> GarbageBytes] : n \in 0 .. MaxGarbage}

\* frame with CRC byte number crcByte (1 = high, 2 = low, 0 = none) XORed with mask
CorruptCrc(frame, crcByte, mask) ==
    IF crcByte = 0 \/ frame = <<>>
    THEN frame
    ELSE [frame EXCEPT ![Len(frame) - 2 + crcByte] = BitXor(@, mask)]

Scenario(g, p1, crcByte, mask, p2, t) ==
    [garbage |-> g, first |-> p1, crcByte |-> crcByte, mask |-> mask,
     second |-> p2, tail |-> t]

Scenarios ==
    \* garbage, then one valid frame
    {Scenario(g, <<>>, 0, 0, p, <<>>) : g \in GarbageSeqs, p \in Payloads}
    \* a frame with one CRC byte altered, then a valid frame
    \cup {Scenario(<<>>, x[1], x[2], x[3], x[4], <<>>) :
              x \in Payloads \X {1, 2} \X CrcFlips \X Payloads}
    \* two valid frames back to back
    \cup {Scenario(<<>>, p1, 0, 0, p2, <<>>) : p1 \in Payloads, p2 \in Payloads}
    \* one valid frame, then garbage
    \cup {Scenario(<<>>, <<>>, 0, 0, p, t) : p \in Payloads, t \in GarbageSeqs}

FirstFrame(s) == CorruptCrc(sendFrame(s.first), s.crcByte, s.mask)
SecondFrame(s) == sendFrame(s.second)
Line(s) == s.garbage \o FirstFrame(s) \o SecondFrame(s) \o s.tail

\* neither task is inside an access to a shared object
LoopIdle == [writing |-> "none", report |-> <<>>, range |-> <<0, 0>>]
IoIdle == [reading |-> "none", raced |-> FALSE]

\* nothing has been printed about the retranslation link
NoNotices == [connected |-> 0, disconnected |-> 0]

\* GameManager::espApi == nullptr: no server API object has been set
NullApi == [null |-> TRUE, gameActive |-> FALSE, coefficients |-> [t \in {} |-> 0]]

NoCall == [op |-> "none", byte |-> 0, before |-> NewRobustUart]

CodecInit ==
    /\ scenario \in Scenarios
    /\ rxStream = Line(scenario)
    /\ robustUart = NewRobustUart
    /\ fed = 0
    /\ retLog = <<>>
    /\ lastCall = NoCall
    /\ uartPowerplants = <<>>
    /\ pendingDecreases = <<>>
    /\ lastUartAttractionUpdate = Zero32
    /\ millis = Zero32
    /\ ticks = 0
    /\ powerPlants = <<>>
    /\ espApi = NullApi
    /\ uartTx = <<>>
    /\ lastRetranslationPing = Zero32
    /\ lastPingRequest = Zero32
    /\ retranslationConnected = FALSE
    /\ serialNotices = NoNotices
    /\ loopTask = LoopIdle
    /\ ioTask = IoIdle
    /\ ioSeen = "nothing"

\* the receiver takes the next byte off the line and calls processByte
PushByte ==
    /\ rxStream # <<>>
    /\ LET r == processByte(robustUart, Head(rxStream))
       IN  /\ robustUart' = r.u
           /\ retLog' = Append(retLog, r.ret)
    /\ lastCall' = [op |-> "processByte", byte |-> Head(rxStream), before |-> robustUart]
    /\ rxStream' = Tail(rxStream)
    /\ fed' = fed + 1
    /\ UNCHANGED <<scenario, gmVars, driverVars, taskVars, uartTx, linkVars>>

\* the caller has consumed the ready frame and resets the decoder
CallerReset ==
    /\ robustUart.rxState = "FRAME_READY"
    /\ robustUart' = resetRx(robustUart)
    /\ lastCall' = [op |-> "resetRx", byte |-> 0, before |-> robustUart]
    /\ UNCHANGED <<rxStream, scenario, fed, retLog, gmVars, driverVars, taskVars, uartTx, linkVars>>

CodecNext == PushByte \/ CallerReset

SpecCodec == CodecInit /\ [][CodecNext]_vars


(***************************************************************************)
(* GameManager: the inventory reconciler.  uartPowerplants is a sequence   *)
(* of [slaveType, amount], pendingDecreases a sequence of                  *)
(* [slaveType, targetAmount, firstSeen, originalAmount].  The operators    *)
(* work on st = [plants |-> ..., pend |-> ...].                            *)
(***************************************************************************)
PHOTOVOLTAIC == 1
BATTERY == 8
DECREASE_GRACE_MS == 500
ATTRACTION_UPDATE_MS == 200

\* mutant: the lower end of the enum range is not checked
isValidSlaveType_NoLower(t) == t <= BATTERY

isValidSlaveType(t) == t >= PHOTOVOLTAIC /\ t <= BATTERY

\* index of the first element of seq whose slaveType is type, 0 when there is none
RECURSIVE FirstFrom(_, _, _)
FirstFrom(seq, type, i) ==
    IF i > Len(seq) THEN 0
    ELSE IF seq[i].slaveType = type THEN i
    ELSE FirstFrom(seq, type, i + 1)

FirstOfType(seq, type) == FirstFrom(seq, type, 1)

\* the lambda findCurrentAmount
findCurrentAmount(plants, type) ==
    LET k == FirstOfType(plants, type)
    IN  IF k = 0 THEN -1 ELSE plants[k].amount

\* for (auto &p : uartPowerplants) if (p.slaveType == type) { p.amount = amount; break; }
SetAmount(plants, type, amount) ==
    LET k == FirstOfType(plants, type)
    IN  IF k = 0 THEN plants ELSE [plants EXCEPT ![k].amount = amount]

\* pendingDecreases.erase(remove_if(... pd.slaveType == type ...))
ErasePending(pend, type) == SelectSeq(pend, LAMBDA pd : pd.slaveType # type)

\* mutant: a report of the pending target restarts the timer too
StageDecrease_Refresh(pend, incoming, current, now) ==
    LET k == FirstOfType(pend, incoming.slaveType)
    IN  IF k # 0
        THEN [pend EXCEPT ![k].targetAmount = incoming.amount,
                          ![k].firstSeen = now]
        ELSE Append(pend, [slaveType |-> incoming.slaveType,
                           targetAmount |-> incoming.amount,
                           firstSeen |-> now,
                           originalAmount |-> current])

\* the decrease branch: retarget the first pending entry of the type, or stage a new one
StageDecrease(pend, incoming, current, now) ==
    LET k == FirstOfType(pend, incoming.slaveType)
    IN  IF k # 0
        THEN IF pend[k].targetAmount # incoming.amount
             THEN [pend EXCEPT ![k].targetAmount = incoming.amount,
                               ![k].firstSeen = now]
             ELSE pend
        ELSE Append(pend, [slaveType |-> incoming.slaveType,
                           targetAmount |-> incoming.amount,
                           firstSeen |-> now,
                           originalAmount |-> current])

\* mutant: an increase is applied but the pending decrease of the type is kept
ProcessIncoming_KeepPending(st, incoming, now) ==
    IF ~isValidSlaveType(incoming.slaveType)
    THEN st
    ELSE LET current == findCurrentAmount(st.plants, incoming.slaveType)
         IN  IF current < 0
             THEN [plants |-> Append(st.plants, incoming),
                   pend |-> ErasePending(st.pend, incoming.slaveType)]
             ELSE IF incoming.amount > current
             THEN [plants |-> SetAmount(st.plants, incoming.slaveType, incoming.amount),
                   pend |-> st.pend]
             ELSE IF incoming.amount < current
             THEN [plants |-> st.plants,
                   pend |-> StageDecrease(st.pend, incoming, current, now)]
             ELSE st

\* mutant: a report of the current amount cancels the pending decrease of the type
ProcessIncoming_EqualCancels(st, incoming, now) ==
    IF ~isValidSlaveType(incoming.slaveType)
    THEN st
    ELSE LET current == findCurrentAmount(st.plants, incoming.slaveType)
         IN  IF current < 0
             THEN [plants |-> Append(st.plants, incoming),
                   pend |-> ErasePending(st.pend, incoming.slaveType)]
             ELSE IF incoming.amount > current
             THEN [plants |-> SetAmount(st.plants, incoming.slaveType, incoming.amount),
                   pend |-> ErasePending(st.pend, incoming.slaveType)]
             ELSE IF incoming.amount < current
             THEN [plants |-> st.plants,
                   pend |-> StageDecrease(st.pend, incoming, current, now)]
             ELSE [plants |-> st.plants,
                   pend |-> ErasePending(st.pend, incoming.slaveType)]

\* the body of the loop over the reported entries
ProcessIncoming(st, incoming, now) ==
    IF ~isValidSlaveType(incoming.slaveType)
    THEN st
    ELSE LET current == findCurrentAmount(st.plants, incoming.slaveType)
         IN  IF current < 0
             THEN [plants |-> Append(st.plants, incoming),
                   pend |-> ErasePending(st.pend, incoming.slaveType)]
             ELSE IF incoming.amount > current
             THEN [plants |-> SetAmount(st.plants, incoming.slaveType, incoming.amount),
                   pend |-> ErasePending(st.pend, incoming.slaveType)]
             ELSE IF incoming.amount < current
             THEN [plants |-> st.plants,
                   pend |-> StageDecrease(st.pend, incoming, current, now)]
             ELSE st

RECURSIVE ProcessReported(_, _, _, _)
ProcessReported(st, powerplants, i, now) ==
    IF i > Len(powerplants) THEN st
    ELSE ProcessReported(ProcessIncoming(st, powerplants[i], now), powerplants, i + 1, now)

\* the body of the loop over the inventory that stages types missing from the report
StageMissing(pend, existing, powerplants, now) ==
    IF ~isValidSlaveType(existing.slaveType) THEN pend
    ELSE IF \E i \in 1 .. Len(powerplants) : powerplants[i].slaveType = existing.slaveType
    THEN pend
    ELSE IF existing.amount > 0
            /\ ~\E j \in 1 .. Len(pend) :
                   pend[j].slaveType = existing.slaveType /\ pend[j].targetAmount = 0
    THEN Append(pend, [slaveType |-> existing.slaveType,
                       targetAmount |-> 0,
                       firstSeen |-> now,
                       originalAmount |-> existing.amount])
    ELSE pend

RECURSIVE PruneMissing(_, _, _, _, _)
PruneMissing(pend, plants, powerplants, i, now) ==
    IF i > Len(plants) THEN pend
    ELSE PruneMissing(StageMissing(pend, plants[i], powerplants, now),
                      plants, powerplants, i + 1, now)

\* mutant: the grace period is compared against the driver interval
Expired_Short(pd, now) == Ge32(Sub32(now, pd.firstSeen), ATTRACTION_UPDATE_MS)

\* mutant: the clock is compared with the deadline firstSeen + DECREASE_GRACE_MS
Expired_Deadline(pd, now) ==
    LET deadline == Add32(pd.firstSeen, DECREASE_GRACE_MS)
    IN  now[1] > deadline[1] \/ (now[1] = deadline[1] /\ now[2] >= deadline[2])

\* the remove_if predicate: has the grace period of pd elapsed
Expired(pd, now) == Ge32(Sub32(now, pd.firstSeen), DECREASE_GRACE_MS)

\* remove_if visits the pending entries in order; an expired one is committed and dropped
RECURSIVE ApplyFrom(_, _, _)
ApplyFrom(st, i, now) ==
    IF i > Len(st.pend) THEN [plants |-> st.plants, pend |-> <<>>]
    ELSE LET pd == st.pend[i]
             expired == Expired(pd, now)
             rest == ApplyFrom([plants |-> IF expired
                                           THEN SetAmount(st.plants, pd.slaveType,
                                                          pd.targetAmount)
                                           ELSE st.plants,
                                pend |-> st.pend], i + 1, now)
         IN  [plants |-> rest.plants,
              pend |-> IF expired THEN rest.pend ELSE <<pd>> \o rest.pend]

applyPendingDecreases(st, now) ==
    IF st.pend = <<>> THEN st ELSE ApplyFrom(st, 1, now)

\* mutant: entries whose count has dropped to zero are purged as well
purgeInvalidUartPowerplants_DropZero(plants) ==
    SelectSeq(plants, LAMBDA p : isValidSlaveType(p.slaveType) /\ p.amount > 0)

purgeInvalidUartPowerplants(plants) ==
    SelectSeq(plants, LAMBDA p : isValidSlaveType(p.slaveType))

\* the two loops of updateUartPowerplants: the reported entries, then the types
\* missing from the report
stageReport(st, powerplants, now) ==
    LET reported == ProcessReported(st, powerplants, 1, now)
    IN  [plants |-> reported.plants,
         pend |-> PruneMissing(reported.pend, reported.plants, powerplants, 1, now)]

updateUartPowerplants(st, powerplants, now) ==
    LET staged == stageReport(st, powerplants, now)
        applied == applyPendingDecreases(staged, now)
    IN  [plants |-> purgeInvalidUartPowerplants(applied.plants),
         pend |-> applied.pend]


(***************************************************************************)
(* GameManager: the attraction driver.  A registered local channel is a    *)
(* record [plantType, minWatts, maxWatts, hasEncoder, powerPercentage,     *)
(* powerSetting].  Watts are whole numbers; a percentage (the float        *)
(* 0.0 .. 1.0) is kept in units of 1/10000, a computed power in units of   *)
(* 1/10000 W, a production coefficient in units of 1/100.  espApi is       *)
(* NullApi or [null, gameActive, coefficients: source id -> value].        *)
(***************************************************************************)
WIND == 2
NUCLEAR == 3
GAS == 4
HYDRO == 5
HYDRO_STORAGE == 6
COAL == 7
SOURCE_PHOTOVOLTAIC == 1
SOURCE_WIND == 2

CMD_ON == 1
CMD_OFF == 2
CMD_BATTERY_IDLE == 3
CMD_BATTERY_CHARGE == 4
CMD_BATTERY_DISCHARGE == 5
CMD_HYDRO_STORAGE_LEVEL_1 == 11
CMD_HYDRO_STORAGE_LEVEL_2 == 12
CMD_HYDRO_STORAGE_LEVEL_3 == 13
CMD_HYDRO_STORAGE_LEVEL_4 == 14
CMD_HYDRO_STORAGE_LEVEL_5 == 15

Abs(x) == IF x < 0 THEN -x ELSE x

isGameActive(api) == IF api.null THEN FALSE ELSE api.gameActive

\* 0.0f when there is no API object or no coefficient for the source
getProductionCoefficientForType(api, plantType) ==
    IF api.null THEN 0
    ELSE IF plantType \in DOMAIN api.coefficients THEN api.coefficients[plantType]
    ELSE 0

\* mutant: the center deadband of a symmetric range is left out
computePowerPerPlant_NoDeadband(plant, api) ==
    IF ~isGameActive(api) THEN 0
    ELSE IF plant.maxWatts <= 0 THEN 0
    ELSE LET value == plant.minWatts * 10000
                          + plant.powerPercentage * (plant.maxWatts - plant.minWatts)
             absTol == 20 * (Abs(plant.maxWatts) + Abs(plant.minWatts))
         IN  IF Abs(value) <= absTol THEN 0 ELSE value

\* computePowerPerPlant: minWatts + pct * range, snapped to 0 inside the center
\* deadband of a symmetric range (|pct - 0.5| <= 0.0025) and below 0.2 % of the
\* summed magnitudes
computePowerPerPlant(plant, api) ==
    IF ~isGameActive(api) THEN 0
    ELSE IF plant.maxWatts <= 0 THEN 0
    ELSE LET pct == plant.powerPercentage
             value == plant.minWatts * 10000 + pct * (plant.maxWatts - plant.minWatts)
             symmetric == Abs(plant.maxWatts + plant.minWatts) * 1000
                              <= Abs(plant.maxWatts) + Abs(plant.minWatts) + 1
             absTol == 20 * (Abs(plant.maxWatts) + Abs(plant.minWatts))
         IN  IF symmetric /\ Abs(pct - 5000) <= 25 THEN 0
             ELSE IF Abs(value) <= absTol THEN 0
             ELSE value

\* mutant: a percentage of exactly 0.5 counts as on
onOffByPercent_AtHalf(plant) ==
    IF plant.maxWatts <= 0 THEN 0
    ELSE IF plant.powerPercentage >= 5000 THEN 1 ELSE 0

onOffByPercent(plant) ==
    IF plant.maxWatts <= 0 THEN 0
    ELSE IF plant.powerPercentage > 5000 THEN 1 ELSE 0

\* RobustUartHelpers::sendCommand through sendCmd2B: the frame for [slaveType, cmd4 & 0x0F]
sendCmd2B(slaveType, cmd4) == sendFrame(<<slaveType, cmd4 % 16>>)

sendAttractionCommand(slaveType, state) ==
    sendCmd2B(slaveType, IF state # 0 THEN CMD_ON ELSE CMD_OFF)

updatePhotovoltaic(slaveType, plant, api) ==
    sendCmd2B(slaveType,
              IF ~api.null /\ getProductionCoefficientForType(api, SOURCE_PHOTOVOLTAIC) <= 50
              THEN CMD_ON ELSE CMD_BATTERY_IDLE)

updateWind(slaveType, plant, api) ==
    sendAttractionCommand(slaveType,
              IF ~api.null /\ getProductionCoefficientForType(api, SOURCE_WIND) > 50
              THEN 1 ELSE 0)

updateNuclear(slaveType, plant) == sendAttractionCommand(slaveType, onOffByPercent(plant))

\* mutant: a floor of 0 is not raised to level 1
updateGas_NoLevelOne(slaveType, plant) ==
    IF plant.maxWatts <= 0 THEN sendCmd2B(slaveType, CMD_OFF)
    ELSE IF plant.powerPercentage < 500 THEN sendCmd2B(slaveType, CMD_OFF)
    ELSE LET floor == plant.powerPercentage \div 1000
             level == IF floor > 10 THEN 10 ELSE floor
         IN  sendCmd2B(slaveType, 5 + level)

updateGas(slaveType, plant) ==
    IF plant.maxWatts <= 0 THEN sendCmd2B(slaveType, CMD_OFF)
    ELSE IF plant.powerPercentage < 500 THEN sendCmd2B(slaveType, CMD_OFF)
    ELSE LET floor == plant.powerPercentage \div 1000
             level == IF floor = 0 THEN 1 ELSE IF floor > 10 THEN 10 ELSE floor
         IN  sendCmd2B(slaveType, 5 + level)

updateHydro(slaveType, plant) == sendAttractionCommand(slaveType, onOffByPercent(plant))

\* mutant: the thresholds are compared strictly
updateHydroStorage_Strict(slaveType, plant, api) ==
    IF plant.maxWatts <= 0 THEN sendCmd2B(slaveType, CMD_OFF)
    ELSE LET power == computePowerPerPlant(plant, api)
             range == plant.maxWatts - plant.minWatts
             normalized == IF range > 0 THEN power * 2 ELSE 0
             unit == IF range > 0 THEN range * 10000 ELSE 1
         IN  sendCmd2B(slaveType,
                 IF normalized * 10 < -6 * unit THEN CMD_HYDRO_STORAGE_LEVEL_5
                 ELSE IF normalized * 10 < -2 * unit THEN CMD_HYDRO_STORAGE_LEVEL_4
                 ELSE IF normalized * 10 > 6 * unit THEN CMD_HYDRO_STORAGE_LEVEL_1
                 ELSE IF normalized * 10 > 2 * unit THEN CMD_HYDRO_STORAGE_LEVEL_2
                 ELSE CMD_HYDRO_STORAGE_LEVEL_3)

\* normalizedPower = powerPerPlant / (range * 0.5), compared with -0.6, -0.2, 0.6, 0.2
updateHydroStorage(slaveType, plant, api) ==
    IF plant.maxWatts <= 0 THEN sendCmd2B(slaveType, CMD_OFF)
    ELSE LET power == computePowerPerPlant(plant, api)
             range == plant.maxWatts - plant.minWatts
             \* normalizedPower in units of 1/10000, 0 when the range is not positive
             normalized == IF range > 0 THEN power * 2 ELSE 0
             unit == IF range > 0 THEN range * 10000 ELSE 1
         IN  sendCmd2B(slaveType,
                 IF normalized * 10 <= -6 * unit THEN CMD_HYDRO_STORAGE_LEVEL_5
                 ELSE IF normalized * 10 <= -2 * unit THEN CMD_HYDRO_STORAGE_LEVEL_4
                 ELSE IF normalized * 10 >= 6 * unit THEN CMD_HYDRO_STORAGE_LEVEL_1
                 ELSE IF normalized * 10 >= 2 * unit THEN CMD_HYDRO_STORAGE_LEVEL_2
                 ELSE CMD_HYDRO_STORAGE_LEVEL_3)

updateCoal(slaveType, plant) == sendAttractionCommand(slaveType, onOffByPercent(plant))

\* mutant: a power of 0 is taken for charging
updateBattery_NeverIdle(slaveType, plant, api) ==
    LET power == computePowerPerPlant(plant, api)
    IN  sendCmd2B(slaveType,
            IF power <= 0 THEN CMD_BATTERY_CHARGE
            ELSE CMD_BATTERY_DISCHARGE)

updateBattery(slaveType, plant, api) ==
    LET power == computePowerPerPlant(plant, api)
    IN  sendCmd2B(slaveType,
            IF power = 0 THEN CMD_BATTERY_IDLE
            ELSE IF power < 0 THEN CMD_BATTERY_CHARGE
            ELSE CMD_BATTERY_DISCHARGE)

\* the switch on plant.plantType
KindCommand(slaveType, plant, api) ==
    CASE plant.plantType = PHOTOVOLTAIC -> updatePhotovoltaic(slaveType, plant, api)
      [] plant.plantType = WIND -> updateWind(slaveType, plant, api)
      [] plant.plantType = NUCLEAR -> updateNuclear(slaveType, plant)
      [] plant.plantType = GAS -> updateGas(slaveType, plant)
      [] plant.plantType = HYDRO -> updateHydro(slaveType, plant)
      [] plant.plantType = HYDRO_STORAGE -> updateHydroStorage(slaveType, plant, api)
      [] plant.plantType = COAL -> updateCoal(slaveType, plant)
      [] plant.plantType = BATTERY -> updateBattery(slaveType, plant, api)
      [] OTHER -> sendAttractionCommand(slaveType,
                      IF plant.maxWatts > 0 /\ plant.powerPercentage > 5000 THEN 1 ELSE 0)

\* index of the first registered channel of the type, 0 when there is none
RECURSIVE FirstChannel(_, _, _)
FirstChannel(plants, type, i) ==
    IF i > Len(plants) THEN 0
    ELSE IF plants[i].plantType = type THEN i
    ELSE FirstChannel(plants, type, i + 1)

\* mutant: the power of one device is returned
calculateTotalPowerForType_PerDevice(inventory, plants, api, slaveType) ==
    IF ~isValidSlaveType(slaveType) THEN 0
    ELSE LET k == FirstChannel(plants, slaveType, 1)
             u == FirstOfType(inventory, slaveType)
         IN  IF k = 0 THEN 0
             ELSE IF u = 0 THEN 0
             ELSE IF inventory[u].amount = 0 \/ plants[k].maxWatts <= 0 THEN 0
             ELSE computePowerPerPlant(plants[k], api)

\* the first channel of the type and the first inventory entry of the type
calculateTotalPowerForType(inventory, plants, api, slaveType) ==
    IF ~isValidSlaveType(slaveType) THEN 0
    ELSE LET k == FirstChannel(plants, slaveType, 1)
             u == FirstOfType(inventory, slaveType)
         IN  IF k = 0 THEN 0
             ELSE IF u = 0 THEN 0
             ELSE IF inventory[u].amount = 0 \/ plants[k].maxWatts <= 0 THEN 0
             ELSE computePowerPerPlant(plants[k], api) * inventory[u].amount

\* mutant: a type without a registered channel is sent nothing
PlantCommand_NoFailSafe(uartPlant, plants, api) ==
    IF uartPlant.amount = 0 \/ ~isValidSlaveType(uartPlant.slaveType) THEN <<>>
    ELSE LET k == FirstChannel(plants, uartPlant.slaveType, 1)
         IN  IF k # 0 THEN <<KindCommand(uartPlant.slaveType, plants[k], api)>>
             ELSE <<>>

\* mutant: a type with a count of 0 is sent its command all the same
PlantCommand_ZeroToo(uartPlant, plants, api) ==
    IF ~isValidSlaveType(uartPlant.slaveType) THEN <<>>
    ELSE LET k == FirstChannel(plants, uartPlant.slaveType, 1)
         IN  IF k # 0 THEN <<KindCommand(uartPlant.slaveType, plants[k], api)>>
             ELSE <<sendAttractionCommand(uartPlant.slaveType, 0)>>

\* the body of the loop over uartPowerplants: the frames written for one inventory entry
PlantCommand(uartPlant, plants, api) ==
    IF uartPlant.amount = 0 \/ ~isValidSlaveType(uartPlant.slaveType) THEN <<>>
    ELSE LET k == FirstChannel(plants, uartPlant.slaveType, 1)
         IN  IF k # 0 THEN <<KindCommand(uartPlant.slaveType, plants[k], api)>>
             ELSE <<sendAttractionCommand(uartPlant.slaveType, 0)>>

RECURSIVE AttractionCommands(_, _, _, _)
AttractionCommands(inventory, plants, api, i) ==
    IF i > Len(inventory) THEN <<>>
    ELSE PlantCommand(inventory[i], plants, api)
             \o AttractionCommands(inventory, plants, api, i + 1)

(***************************************************************************)
(* The reconciler specification: reports arrive, the driver runs, the      *)
(* clock advances.                                                         *)
(***************************************************************************)
Entries ==
    [slaveType : ReportTypes, amount : 0 .. MaxAmount]
        \cup [slaveType : OtherTypes, amount : OtherAmounts]
Reports == UNION {[1 .. n -> Entries] : n \in 0 .. MaxReportLen}

GM == [plants |-> uartPowerplants, pend |-> pendingDecreases]

Init ==
    /\ uartPowerplants = <<>>
    /\ pendingDecreases = <<>>
    /\ lastUartAttractionUpdate = Zero32
    /\ millis = Zero32
    /\ ticks = 0
    /\ robustUart = NewRobustUart
    /\ rxStream = <<>>
    /\ scenario = Scenario(<<>>, <<>>, 0, 0, <<>>, <<>>)
    /\ fed = 0
    /\ retLog = <<>>
    /\ lastCall = NoCall
    /\ powerPlants = <<>>
    /\ espApi = NullApi
    /\ uartTx = <<>>
    /\ lastRetranslationPing = Zero32
    /\ lastPingRequest = Zero32
    /\ retranslationConnected = FALSE
    /\ serialNotices = NoNotices
    /\ loopTask = LoopIdle
    /\ ioTask = IoIdle
    /\ ioSeen = "nothing"

\* parseSlaveInfo: the pairs of one received report are handed to updateUartPowerplants
ParseReport(reports) ==
    \E report \in reports :
        \E after \in {updateUartPowerplants(GM, report, millis)} :
            /\ uartPowerplants' = after.plants
            /\ pendingDecreases' = after.pend
            /\ uartTx' = <<>>
            /\ UNCHANGED <<lastUartAttractionUpdate, millis, ticks, codecVars,
                           driverVars, taskVars, linkVars>>

ParseSlaveInfo == ParseReport(Reports)

\* mutant: the commands are derived from the inventory as it was before the commit
DriverRun_CommandsFirst(st, plants, api, now) ==
    LET after == applyPendingDecreases(st, now)
    IN  [plants |-> after.plants, pend |-> after.pend,
         tx |-> AttractionCommands(st.plants, plants, api, 1)]

\* an eligible run: commit the expired pending decreases, then derive and write
\* the command of every inventory entry
DriverRun(st, plants, api, now) ==
    LET after == applyPendingDecreases(st, now)
    IN  [plants |-> after.plants, pend |-> after.pend,
         tx |-> AttractionCommands(after.plants, plants, api, 1)]

\* mutant: the throttle lets every invocation through
Throttled_Never(now, last) == FALSE

\* the throttle at the top of updateAttractionStates
Throttled(now, last) == Lt32(Sub32(now, last), ATTRACTION_UPDATE_MS)

\* updateAttractionStates as a function of the state it reads: the inventory and
\* pending set it leaves, the frames it writes, and lastUartAttractionUpdate
updateAttractionStates(st, last, plants, api, now) ==
    IF Throttled(now, last)
    THEN [plants |-> st.plants, pend |-> st.pend, tx |-> <<>>, last |-> last]
    ELSE LET run == DriverRun(st, plants, api, now)
         IN  [plants |-> run.plants, pend |-> run.pend, tx |-> run.tx, last |-> now]

\* updateAttractionStates: throttle, commit expired decreases, send the commands,
\* note the time of the run
UpdateAttractionStates ==
    \E run \in {updateAttractionStates(GM, lastUartAttractionUpdate,
                                       powerPlants, espApi, millis)} :
        /\ uartPowerplants' = run.plants
        /\ pendingDecreases' = run.pend
        /\ uartTx' = run.tx
        /\ lastUartAttractionUpdate' = run.last
        /\ UNCHANGED <<millis, ticks, codecVars, driverVars, taskVars, linkVars>>

Advance(steps, limit) ==
    /\ ticks < limit
    /\ \E d \in steps : millis' = Add32(millis, d)
    /\ ticks' = ticks + 1
    /\ UNCHANGED <<uartPowerplants, pendingDecreases, lastUartAttractionUpdate, codecVars,
                   driverVars, taskVars, uartTx, linkVars>>

Tick == Advance(TickSteps, MaxTicks)

Next == ParseSlaveInfo \/ UpdateAttractionStates \/ Tick

Spec == Init /\ [][Next]_vars

(***************************************************************************)
(* The ingestion specification: the reconciler fed reports that name       *)
(* device types outside the enum next to a valid one.                      *)
(***************************************************************************)
IngestEntries ==
    [slaveType : ReportTypes, amount : IngestAmounts]
        \cup [slaveType : OtherTypes, amount : OtherAmounts]
        \cup [slaveType : InvalidTypes, amount : InvalidAmounts]
IngestReports == UNION {[1 .. n -> IngestEntries] : n \in 0 .. MaxReportLen}

ParseAnyTypes == ParseReport(IngestReports)

IngestNext == ParseAnyTypes \/ UpdateAttractionStates \/ Tick

SpecIngest == Init /\ [][IngestNext]_vars

(***************************************************************************)
(* The driver specification: the reconciler and the attraction driver with *)
(* local channels registered and the server API answering.  The registry,  *)
(* the ranges, the encoder positions and the coefficients are those left   *)
(* by setup(), the range callback and update() before the first report.    *)
(***************************************************************************)
DriverTypes == {WIND, GAS}          \* device types the reports of this specification name
DriverAmounts == {0, 1}
GasPercentages == {300, 7000}       \* encoder at 3 % and at 70 %
WindCoefficients == {80}            \* wind coefficient 0.8
DriverTickSteps == {100, 250}       \* milliseconds between two passes of loop()

Channel(kind, min, max, enc, pct) ==
    [plantType |-> kind, minWatts |-> min, maxWatts |-> max, hasEncoder |-> enc,
     powerPercentage |-> pct, powerSetting |-> 0]

DriverRegistries ==
    {<<>>}
        \cup {<<Channel(GAS, 0, 100, TRUE, p)>> : p \in GasPercentages}
        \cup {<<Channel(WIND, 0, 100, FALSE, 10000), Channel(GAS, 0, 100, TRUE, p)>> :
                  p \in GasPercentages}

DriverApis ==
    {NullApi} \cup {[null |-> FALSE, gameActive |-> TRUE,
                     coefficients |-> [t \in {SOURCE_WIND} |-> c]] :
                      c \in WindCoefficients}

DriverEntries == [slaveType : DriverTypes, amount : DriverAmounts]
DriverReports == UNION {[1 .. n -> DriverEntries] : n \in 0 .. MaxReportLen}

DriverInit ==
    /\ powerPlants \in DriverRegistries
    /\ espApi \in DriverApis
    /\ uartPowerplants = <<>>
    /\ pendingDecreases = <<>>
    /\ lastUartAttractionUpdate = Zero32
    /\ millis = Zero32
    /\ ticks = 0
    /\ uartTx = <<>>
    /\ robustUart = NewRobustUart
    /\ rxStream = <<>>
    /\ scenario = Scenario(<<>>, <<>>, 0, 0, <<>>, <<>>)
    /\ fed = 0
    /\ retLog = <<>>
    /\ lastCall = NoCall
    /\ lastRetranslationPing = Zero32
    /\ lastPingRequest = Zero32
    /\ retranslationConnected = FALSE
    /\ serialNotices = NoNotices
    /\ loopTask = LoopIdle
    /\ ioTask = IoIdle
    /\ ioSeen = "nothing"

ParseDriverReport == ParseReport(DriverReports)

DriverTick == Advance(DriverTickSteps, MaxTicks)

DriverNext == ParseDriverReport \/ UpdateAttractionStates \/ DriverTick

SpecDriver == DriverInit /\ [][DriverNext]_vars

(***************************************************************************)
(* Claims about the frame codec, checked under SpecCodec.                  *)
(***************************************************************************)
\* the line starts, on a freshly constructed decoder, with an unaltered frame
StartsWithFrame == scenario.garbage = <<>> /\ scenario.crcByte = 0
LeadPayload == IF scenario.first # <<>> THEN scenario.first ELSE scenario.second
LeadFrame == sendFrame(LeadPayload)

\* C1: round trip. The bytes sendFrame writes for a payload, pushed one at a time
\* into a fresh decoder, make processByte return true exactly once, on the last
\* byte, and getPayload/getPayloadLength then give the payload back.
C1_RoundTrip ==
    StartsWithFrame =>
        /\ \A i \in 1 .. Len(retLog) :
               i <= Len(LeadFrame) => (retLog[i] = (i = Len(LeadFrame)))
        /\ (fed = Len(LeadFrame) /\ lastCall.op = "processByte") =>
               /\ getPayloadLength(robustUart) = Len(LeadPayload)
               /\ getPayload(robustUart) = LeadPayload

C1_Witness ==
    /\ StartsWithFrame
    /\ Len(LeadPayload) = MaxPayloadLen
    /\ \E i \in 1 .. Len(LeadPayload) : LeadPayload[i] = SYNC1
    /\ fed = Len(LeadFrame)
    /\ lastCall.op = "processByte"
    /\ retLog[fed] = TRUE

\* C7: corruption recovery. A frame with one CRC byte altered never makes
\* processByte return true, raises the CRC-error counter by exactly one, and the
\* valid frame that follows it on the line is decoded and reported frame-ready.
C7_CorruptionRecovery ==
    scenario.crcByte # 0 =>
        LET n1 == Len(FirstFrame(scenario))
            n2 == Len(SecondFrame(scenario))
        IN  /\ \A i \in 1 .. Len(retLog) : i <= n1 => retLog[i] = FALSE
            /\ fed < n1 => robustUart.crcErrors = 0
            /\ fed >= n1 => robustUart.crcErrors = 1
            /\ fed = n1 => robustUart.rxState = "WAIT_SYNC1"
            /\ fed = n1 + n2 =>
                   /\ retLog[fed] = TRUE
                   /\ lastCall.op = "processByte" =>
                          getPayload(robustUart) = scenario.second

C7_Witness ==
    /\ scenario.crcByte = 2
    /\ fed = Len(FirstFrame(scenario)) + Len(SecondFrame(scenario))
    /\ robustUart.crcErrors = 1
    /\ robustUart.rxState = "FRAME_READY"
    /\ getPayload(robustUart) = scenario.second

\* the line is garbage followed by exactly one valid frame, and all of it was pushed
GarbageThenFrameDone ==
    /\ scenario.first = <<>>
    /\ scenario.tail = <<>>
    /\ rxStream = <<>>
    /\ lastCall.op = "processByte"

TrailingFrameReported ==
    /\ retLog[fed] = TRUE
    /\ getPayload(robustUart) = scenario.second

\* the garbage never holds SYNC1 immediately followed by SYNC2
NoSyncPair(g) == \A i \in 1 .. Len(g) - 1 : ~(g[i] = SYNC1 /\ g[i + 1] = SYNC2)

\* C8 as claimed: a fresh decoder fed any garbage bytes followed by one valid
\* frame reports that frame as frame-ready with its payload.
C8_AnyGarbage == GarbageThenFrameDone => TrailingFrameReported

\* C8, amended: a fresh decoder fed garbage that does not contain the sync pair
\* 0xAA 0x55, followed by one valid frame, reports that frame as frame-ready with
\* its payload, however many garbage bytes there are.
C8_Resync ==
    (GarbageThenFrameDone /\ NoSyncPair(scenario.garbage)) => TrailingFrameReported

C8_Witness ==
    /\ GarbageThenFrameDone
    /\ Len(scenario.garbage) = MaxGarbage
    /\ scenario.garbage[MaxGarbage] = SYNC1
    /\ TrailingFrameReported

\* the last call was processByte on a decoder that was in FRAME_READY
PushedWhileReady ==
    /\ lastCall.op = "processByte"
    /\ lastCall.before.rxState = "FRAME_READY"

\* C9 as claimed: a byte pushed in FRAME_READY, before any resetRx, leaves the
\* decoder in FRAME_READY with the stored payload and length unchanged.
C9_StaysReady ==
    PushedWhileReady =>
        /\ robustUart.rxState = "FRAME_READY"
        /\ robustUart.rxLen = lastCall.before.rxLen
        /\ robustUart.rxPayload = lastCall.before.rxPayload

\* C9, amended: a byte pushed in FRAME_READY, before any resetRx, makes the decoder
\* reset itself (length, index and CRC cleared, payload buffer untouched) and
\* treat the byte as the first byte of a new hunt for sync.
C9_ReadyRestarts ==
    PushedWhileReady =>
        /\ robustUart.rxLen = 0
        /\ robustUart.rxIndex = 0
        /\ robustUart.rxCrc = 0
        /\ robustUart.rxPayload = lastCall.before.rxPayload
        /\ robustUart.framesReceived = lastCall.before.framesReceived
        /\ retLog[fed] = FALSE
        /\ IF lastCall.byte = SYNC1
           THEN /\ robustUart.rxState = "WAIT_SYNC2"
                /\ robustUart.syncErrors = lastCall.before.syncErrors
           ELSE /\ robustUart.rxState = "WAIT_SYNC1"
                /\ robustUart.syncErrors = lastCall.before.syncErrors + 1

C9_Witness ==
    /\ PushedWhileReady
    /\ lastCall.before.rxLen = MaxPayloadLen
    /\ robustUart.rxState = "WAIT_SYNC2"


(***************************************************************************)
(* Claims about the inventory reconciler, checked under Spec (C10 under    *)
(* SpecIngest).  A claim about one call is stated for the call made with   *)
(* every report in every reachable state.                                  *)
(***************************************************************************)
AfterReport(report) == updateUartPowerplants(GM, report, millis)
AfterDriver == applyPendingDecreases(GM, millis)

TypesOf(seq) == {seq[i].slaveType : i \in 1 .. Len(seq)}
PendingOf(pend, type) == {pend[j] : j \in {k \in 1 .. Len(pend) : pend[k].slaveType = type}}
Age(pd) == Sub32(millis, pd.firstSeen)

\* entry i of the report names a valid type that is new, or reports more than the current count
IsIncrease(report, i) ==
    /\ report[i].slaveType \in 1 .. 8
    /\ report[i].amount > findCurrentAmount(uartPowerplants, report[i].slaveType)

ListedOnce(report, i) ==
    \A j \in 1 .. Len(report) : j # i => report[j].slaveType # report[i].slaveType

AppliedAtOnce(report, i) ==
    LET after == AfterReport(report)
    IN  /\ findCurrentAmount(after.plants, report[i].slaveType) = report[i].amount
        /\ PendingOf(after.pend, report[i].slaveType) = {}

\* C2 as claimed: an entry for a new type, or with a count above the current one,
\* is in the inventory with that count when the call returns, and no pending
\* change for its type is left.
C2_IncreaseApplied ==
    \A report \in Reports : \A i \in 1 .. Len(report) :
        IsIncrease(report, i) => AppliedAtOnce(report, i)

\* C2, amended: the same, for an entry whose type the report lists only once.
C2_IncreaseAppliedOnce ==
    \A report \in Reports : \A i \in 1 .. Len(report) :
        (IsIncrease(report, i) /\ ListedOnce(report, i)) => AppliedAtOnce(report, i)

\* a pending decrease exists for a type and a report raises that type
C2_Witness ==
    \E report \in Reports : \E i \in 1 .. Len(report) :
        /\ IsIncrease(report, i)
        /\ ListedOnce(report, i)
        /\ PendingOf(pendingDecreases, report[i].slaveType) # {}
        /\ findCurrentAmount(uartPowerplants, report[i].slaveType) > 0
        /\ AppliedAtOnce(report, i)

\* a step in which the count of a type drops takes it to the target of a pending
\* decrease of that type that was staged at least DECREASE_GRACE_MS before the step
DropOnlyWhenDue ==
    \/ uartPowerplants' = uartPowerplants
    \/ \A i \in 1 .. Len(uartPowerplants) :
           LET type == uartPowerplants[i].slaveType
               after == findCurrentAmount(uartPowerplants', type)
           IN  after < uartPowerplants[i].amount
                   => \E pd \in PendingOf(pendingDecreases, type) :
                          /\ pd.targetAmount = after
                          /\ Ge32(Age(pd), 500)

\* after a run of applyPendingDecreases no pending decrease of DECREASE_GRACE_MS
\* or more is left, and a type with such a pending decrease has one of their targets
CommittedWhenDue(after) ==
    /\ \A j \in 1 .. Len(after.pend) : Lt32(Age(after.pend[j]), 500)
    /\ \A type \in TypesOf(uartPowerplants) :
           LET due == {pd \in PendingOf(pendingDecreases, type) : Ge32(Age(pd), 500)}
           IN  due # {} =>
                   findCurrentAmount(after.plants, type) \in {pd.targetAmount : pd \in due}

\* C3: a decrease is delayed. In every step of every handler a count drops only
\* to the target of a pending decrease of its type that was staged at least 500 ms
\* earlier, never before; and a run of applyPendingDecreases made once the 500 ms
\* have elapsed commits the decrease.
C3_DecreaseDelayed ==
    /\ [][DropOnlyWhenDue]_vars
    /\ [](CommittedWhenDue(AfterDriver))

\* a pending decrease is exactly DECREASE_GRACE_MS old and the driver run commits it,
\* while a younger one for another target is kept
C3_Witness ==
    \E j \in 1 .. Len(pendingDecreases) :
        LET pd == pendingDecreases[j]
        IN  /\ Age(pd) = <<0, 500>>
            /\ pd.targetAmount > 0
            /\ findCurrentAmount(uartPowerplants, pd.slaveType) > pd.targetAmount
            /\ findCurrentAmount(AfterDriver.plants, pd.slaveType) = pd.targetAmount
            /\ \E k \in 1 .. Len(AfterDriver.pend) : AfterDriver.pend[k].firstSeen # pd.firstSeen

\* a type has one pending decrease, to a lower count, whose grace period is running
Retractable(type) ==
    /\ findCurrentAmount(uartPowerplants, type) > 0
    /\ Cardinality(PendingOf(pendingDecreases, type)) = 1
    /\ \A pd \in PendingOf(pendingDecreases, type) :
           /\ pd.targetAmount < findCurrentAmount(uartPowerplants, type)
           /\ Lt32(Age(pd), 500)

SameCount(type) ==
    <<[slaveType |-> type, amount |-> findCurrentAmount(uartPowerplants, type)]>>

\* C4 as claimed: a report of the current count, made while the grace period of a
\* pending decrease runs, cancels the pending decrease and the count stays.
C4_SameCountCancels ==
    \A type \in TypesOf(uartPowerplants) :
        Retractable(type) =>
            /\ PendingOf(AfterReport(SameCount(type)).pend, type) = {}
            /\ findCurrentAmount(AfterReport(SameCount(type)).plants, type)
                   = findCurrentAmount(uartPowerplants, type)

\* C4, amended: a report of a count above the current one, made while the grace
\* period runs, cancels the pending decrease and the count becomes the reported
\* one; a report of exactly the current count cancels nothing: the pending
\* decrease keeps its target and its timer and the count is unchanged.
C4_Retraction ==
    \A type \in TypesOf(uartPowerplants) :
        Retractable(type) =>
            /\ \A report \in Reports :
                   (Len(report) = 1 /\ report[1].slaveType = type
                        /\ report[1].amount > findCurrentAmount(uartPowerplants, type))
                   => /\ PendingOf(AfterReport(report).pend, type) = {}
                      /\ findCurrentAmount(AfterReport(report).plants, type)
                             = report[1].amount
            /\ PendingOf(AfterReport(SameCount(type)).pend, type)
                   = PendingOf(pendingDecreases, type)
            /\ findCurrentAmount(AfterReport(SameCount(type)).plants, type)
                   = findCurrentAmount(uartPowerplants, type)

C4_Witness ==
    \E type \in TypesOf(uartPowerplants) :
        /\ Retractable(type)
        /\ findCurrentAmount(uartPowerplants, type) < MaxAmount
        /\ millis # Zero32
        /\ PendingOf(AfterReport(SameCount(type)).pend, type) # {}

\* C5: the pending set never holds two pending changes for one device type.
C5_OnePendingPerType ==
    \A j, k \in 1 .. Len(pendingDecreases) :
        pendingDecreases[j].slaveType = pendingDecreases[k].slaveType => j = k

\* the report with an explicit count of 0 for the type appended
WithZero(report, type) == Append(report, [slaveType |-> type, amount |-> 0])
PendingSet(pend) == {pend[j] : j \in 1 .. Len(pend)}

\* C6: a report that omits a type of the inventory leaves the same inventory and
\* the same pending changes (targets and timers) as the report with a count of 0
\* for that type would.
C6_OmittedIsZero ==
    \A report \in Reports : \A type \in TypesOf(uartPowerplants) :
        type \notin TypesOf(report) =>
            /\ AfterReport(report).plants = AfterReport(WithZero(report, type)).plants
            /\ PendingSet(AfterReport(report).pend)
                   = PendingSet(AfterReport(WithZero(report, type)).pend)

\* C10: neither the inventory nor the pending set ever holds a device type
\* outside 1..8, whatever types the reports name.
C10_OnlyValidTypes ==
    /\ TypesOf(uartPowerplants) \subseteq 1 .. 8
    /\ TypesOf(pendingDecreases) \subseteq 1 .. 8

\* a report naming type 0, or a type above the enum, next to a new valid type is
\* taken in: the valid type is added, the invalid one is not
C10_Witness ==
    /\ pendingDecreases # <<>>
    /\ \E report \in IngestReports :
           /\ Len(report) = 2
           /\ report[1].slaveType \notin 1 .. 8
           /\ report[1].amount > 0
           /\ report[2].slaveType \in 1 .. 8
           /\ Len(AfterReport(report).plants) = Len(uartPowerplants) + 1
           /\ TypesOf(AfterReport(report).plants)
                  = TypesOf(uartPowerplants) \cup {report[2].slaveType}

(***************************************************************************)
(* GameManager: connectivity of the retranslation station.  The link state *)
(* a handler works on is the record [lastPing, lastRequest, connected,     *)
(* notices]; a handler yields the link state it leaves and, where it       *)
(* writes to the UART, the frames it writes.                               *)
(***************************************************************************)
RETRANSLATION_TIMEOUT_MS == 3000
PING_REQUEST_INTERVAL_MS == 2000
StatusRequestPayload == <<255, 51>>     \* {0xFF, 0x33}
LinkTickSteps == {1000, 1500}           \* milliseconds the clock may advance by between two calls

Link == [lastPing |-> lastRetranslationPing, lastRequest |-> lastPingRequest,
         connected |-> retranslationConnected, notices |-> serialNotices]

\* mutant: the "Connected" line is printed for every response
onRetranslationPingReceived_AlwaysNotify(link, now) ==
    [link EXCEPT !.lastPing = now, !.connected = TRUE,
                 !.notices.connected = link.notices.connected + 1]

onRetranslationPingReceived(link, now) ==
    IF ~link.connected
    THEN [link EXCEPT !.lastPing = now, !.connected = TRUE,
                      !.notices.connected = link.notices.connected + 1]
    ELSE [link EXCEPT !.lastPing = now]

\* mutant: a request goes out on every call
RequestThrottled_Never(link, now) == FALSE

\* mutant: requests are spaced further apart than the response timeout
RequestThrottled_PastTimeout(link, now) ==
    Lt32(Sub32(now, link.lastRequest), 2 * PING_REQUEST_INTERVAL_MS)

\* now - lastPingRequest < PING_REQUEST_INTERVAL_MS
RequestThrottled(link, now) == Lt32(Sub32(now, link.lastRequest), PING_REQUEST_INTERVAL_MS)

requestRetranslationStatus(link, now) ==
    IF RequestThrottled(link, now) THEN [link |-> link, tx |-> <<>>]
    ELSE [link |-> [link EXCEPT !.lastRequest = now],
          tx |-> <<sendFrame(StatusRequestPayload)>>]

\* mutant: the timeout is evaluated whether or not the link counts as connected
TimedOut_Unguarded(link, now) ==
    Ge32(Sub32(now, link.lastPing), RETRANSLATION_TIMEOUT_MS + 1)

\* retranslationConnected && (now - lastRetranslationPing > RETRANSLATION_TIMEOUT_MS)
TimedOut(link, now) ==
    link.connected /\ Ge32(Sub32(now, link.lastPing), RETRANSLATION_TIMEOUT_MS + 1)

updateRetranslationStatus(link, now) ==
    LET requested == requestRetranslationStatus(link, now)
    IN  IF TimedOut(requested.link, now)
        THEN [link |-> [requested.link EXCEPT
                            !.connected = FALSE,
                            !.notices.disconnected = requested.link.notices.disconnected + 1],
              tx |-> requested.tx]
        ELSE requested

SetLink(link) ==
    /\ lastRetranslationPing' = link.lastPing
    /\ lastPingRequest' = link.lastRequest
    /\ retranslationConnected' = link.connected
    /\ serialNotices' = link.notices

LinkInit ==
    /\ lastRetranslationPing = Zero32
    /\ lastPingRequest = Zero32
    /\ retranslationConnected = FALSE
    /\ serialNotices = NoNotices
    /\ loopTask = LoopIdle
    /\ ioTask = IoIdle
    /\ ioSeen = "nothing"
    /\ uartTx = <<>>
    /\ millis = Zero32
    /\ ticks = 0
    /\ uartPowerplants = <<>>
    /\ pendingDecreases = <<>>
    /\ lastUartAttractionUpdate = Zero32
    /\ powerPlants = <<>>
    /\ espApi = NullApi
    /\ robustUart = NewRobustUart
    /\ rxStream = <<>>
    /\ scenario = Scenario(<<>>, <<>>, 0, 0, <<>>, <<>>)
    /\ fed = 0
    /\ retLog = <<>>
    /\ lastCall = NoCall

OnRetranslationPingReceived ==
    /\ SetLink(onRetranslationPingReceived(Link, millis))
    /\ uartTx' = <<>>
    /\ UNCHANGED <<gmVars, codecVars, driverVars, taskVars>>

RequestRetranslationStatus ==
    \E done \in {requestRetranslationStatus(Link, millis)} :
        /\ SetLink(done.link)
        /\ uartTx' = done.tx
        /\ UNCHANGED <<gmVars, codecVars, driverVars, taskVars>>

UpdateRetranslationStatus ==
    \E done \in {updateRetranslationStatus(Link, millis)} :
        /\ SetLink(done.link)
        /\ uartTx' = done.tx
        /\ UNCHANGED <<gmVars, codecVars, driverVars, taskVars>>

LinkTick == Advance(LinkTickSteps, MaxLinkTicks)

LinkNext ==
    \/ OnRetranslationPingReceived
    \/ RequestRetranslationStatus
    \/ UpdateRetranslationStatus
    \/ LinkTick

SpecLink == LinkInit /\ [][LinkNext]_vars

(***************************************************************************)
(* The attraction driver                                                   *)
(***************************************************************************)
\* a step in which updateAttractionStates got past its throttle
RunStep == lastUartAttractionUpdate' # lastUartAttractionUpdate

FrameType(frame) == frame[4]
FrameCommand(frame) == frame[5]
FramesFor(tx, type) == SelectSeq(tx, LAMBDA frame : FrameType(frame) = type)

\* what the kind's rule sends for the type, OFF when no channel of it is registered
ExpectedCommand(type) ==
    LET k == FirstChannel(powerPlants, type, 1)
    IN  IF k # 0 THEN KindCommand(type, powerPlants[k], espApi)
        ELSE sendFrame(<<type, CMD_OFF>>)

AfterAttractionUpdate ==
    updateAttractionStates(GM, lastUartAttractionUpdate, powerPlants, espApi, millis)

\* C12: the frames of a driver run name only types whose count, after the
\* pending decreases that were due have been committed, is above 0: a type with
\* a count of 0 is sent nothing.
C12_NoCommandForZero ==
    \A i \in 1 .. Len(uartTx) :
        findCurrentAmount(uartPowerplants, FrameType(uartTx[i])) > 0

\* a decrease to 0 is due and the driver is past its throttle: the run commits it
\* and sends a command to another type, none to the type that went to 0
C12_Witness ==
    \E k \in 1 .. Len(pendingDecreases) :
        LET pd == pendingDecreases[k]
            run == AfterAttractionUpdate
        IN  /\ pd.targetAmount = 0
            /\ Expired(pd, millis)
            /\ findCurrentAmount(uartPowerplants, pd.slaveType) > 0
            /\ run.last = millis
            /\ run.last # lastUartAttractionUpdate
            /\ findCurrentAmount(run.plants, pd.slaveType) = 0
            /\ run.tx # <<>>
            /\ FramesFor(run.tx, pd.slaveType) = <<>>

\* C13: a driver run happens only when at least ATTRACTION_UPDATE_MS have passed
\* since the run before it (since start-up for the first), so two runs that
\* transmit are at least that far apart; a call made sooner leaves the inventory,
\* the pending set and the time of the last run as they are and writes no frame.
C13_ThrottledRuns ==
    /\ [][(RunStep \/ (uartTx' # uartTx /\ uartTx' # <<>>)) =>
              /\ Ge32(Sub32(millis, lastUartAttractionUpdate), ATTRACTION_UPDATE_MS)
              /\ lastUartAttractionUpdate' = millis]_vars
    /\ [](Lt32(Sub32(millis, lastUartAttractionUpdate), ATTRACTION_UPDATE_MS) =>
              AfterAttractionUpdate = [plants |-> uartPowerplants,
                                       pend |-> pendingDecreases,
                                       tx |-> <<>>,
                                       last |-> lastUartAttractionUpdate])

\* a run has transmitted, 100 ms have passed since, and the inventory has changed
\* so that a run made now would have a command to send
C13_Witness ==
    /\ lastUartAttractionUpdate # Zero32
    /\ millis # lastUartAttractionUpdate
    /\ Lt32(Sub32(millis, lastUartAttractionUpdate), ATTRACTION_UPDATE_MS)
    /\ DriverRun(GM, powerPlants, espApi, millis).tx # <<>>
    /\ uartTx = <<>>

\* the types a sequence of frames is addressed to, in the order written
RECURSIVE TxTypes(_)
TxTypes(tx) == IF tx = <<>> THEN <<>> ELSE <<FrameType(Head(tx))>> \o TxTypes(Tail(tx))

\* the types of the inventory entries with a count above 0, in inventory order
RECURSIVE PresentTypes(_)
PresentTypes(inventory) ==
    IF inventory = <<>> THEN <<>>
    ELSE (IF Head(inventory).amount > 0 THEN <<Head(inventory).slaveType>> ELSE <<>>)
             \o PresentTypes(Tail(inventory))

\* C14: within one driver run the commit comes first. After the run no pending
\* decrease that was due is left, each type that had one has the count of such a
\* decrease, and the frames written are those of the inventory as the commit
\* left it: one per entry with a count above 0, in inventory order.
C14_CommitBeforeCommands ==
    [][RunStep =>
          /\ CommittedWhenDue([plants |-> uartPowerplants', pend |-> pendingDecreases'])
          /\ TxTypes(uartTx') = PresentTypes(uartPowerplants')]_vars

\* the driver is past its throttle and the decrease to 0 of the only device type
\* is due: commands derived before the commit would address the type, the run
\* writes none
C14_Witness ==
    /\ PresentTypes(uartPowerplants) # <<>>
    /\ AttractionCommands(uartPowerplants, powerPlants, espApi, 1) # <<>>
    /\ \E k \in 1 .. Len(pendingDecreases) : Expired(pendingDecreases[k], millis)
    /\ AfterAttractionUpdate.last # lastUartAttractionUpdate
    /\ AfterAttractionUpdate.pend = <<>>
    /\ PresentTypes(AfterAttractionUpdate.plants) = <<>>
    /\ AfterAttractionUpdate.tx = <<>>

(***************************************************************************)
(* Connectivity of the retranslation station                               *)
(***************************************************************************)
AfterPing == onRetranslationPingReceived(Link, millis)
AfterStatusUpdate == updateRetranslationStatus(Link, millis).link
AfterRequest == requestRetranslationStatus(Link, millis)

\* now - lastRetranslationPing is above the 3000 ms of the timeout
PastTimeout == Ge32(Sub32(millis, lastRetranslationPing), 3001)

\* C15: while the link counts as disconnected one response makes it connected;
\* a call of updateRetranslationStatus made while it counts as connected and more
\* than 3000 ms after the last response makes it disconnected and prints one
\* line, and made 3000 ms after it or sooner leaves it connected; a call made
\* while it counts as disconnected changes neither the state nor what has been
\* printed.  In every step the "Disconnected" line is printed at most once, and
\* only in a step that takes the link from connected to disconnected.
C15_LinkHealth ==
    /\ [](~retranslationConnected => AfterPing.connected)
    /\ [](retranslationConnected /\ PastTimeout =>
              /\ ~AfterStatusUpdate.connected
              /\ AfterStatusUpdate.notices
                     = [serialNotices EXCEPT !.disconnected = serialNotices.disconnected + 1])
    /\ [](retranslationConnected /\ ~PastTimeout =>
              /\ AfterStatusUpdate.connected
              /\ AfterStatusUpdate.notices = serialNotices)
    /\ [](~retranslationConnected =>
              /\ ~AfterStatusUpdate.connected
              /\ AfterStatusUpdate.notices = serialNotices)
    /\ [][/\ (retranslationConnected /\ ~retranslationConnected')
               <=> serialNotices'.disconnected # serialNotices.disconnected
           /\ serialNotices'.disconnected \in {serialNotices.disconnected,
                                                serialNotices.disconnected + 1}]_vars

\* the link went from disconnected to connected by one response and then, by the
\* timeout, back to disconnected: one line has been printed for each, and the
\* clock is past the timeout still
C15_Witness ==
    /\ ~retranslationConnected
    /\ serialNotices = [connected |-> 1, disconnected |-> 1]
    /\ PastTimeout

\* C16: the link counts as disconnected until the first response.  A response
\* always records its time as lastRetranslationPing and leaves the link
\* connected; the "Connected" line is printed exactly when the link counted as
\* disconnected before it, and a response received while connected restarts the
\* timeout: a status update made right after it does not disconnect.
C16_ResponseHandling ==
    /\ [](serialNotices.connected = 0 => ~retranslationConnected)
    /\ [](/\ AfterPing.lastPing = millis
           /\ AfterPing.connected
           /\ AfterPing.lastRequest = lastPingRequest
           /\ AfterPing.notices
                  = (IF retranslationConnected THEN serialNotices
                     ELSE [serialNotices EXCEPT !.connected = serialNotices.connected + 1])
           /\ updateRetranslationStatus(AfterPing, millis).link.connected)
    /\ [][serialNotices'.connected # serialNotices.connected =>
              /\ ~retranslationConnected
              /\ retranslationConnected'
              /\ lastRetranslationPing' = millis
              /\ serialNotices'.connected = serialNotices.connected + 1]_vars

\* the link is connected and its timeout has run out but has not been evaluated:
\* a response arriving now refreshes the response time and prints nothing
C16_Witness ==
    /\ retranslationConnected
    /\ serialNotices = [connected |-> 1, disconnected |-> 0]
    /\ PastTimeout
    /\ AfterPing = [Link EXCEPT !.lastPing = millis]
    /\ updateRetranslationStatus(AfterPing, millis).link.connected

\* now - lastPingRequest is below the 2000 ms of the request interval
WithinRequestInterval == Lt32(Sub32(millis, lastPingRequest), 2000)

\* C17: a call of requestRetranslationStatus made less than 2000 ms after
\* lastPingRequest changes nothing and writes nothing; any other call writes one
\* frame, the one carrying the payload {0xFF, 0x33}, and sets lastPingRequest to
\* the time of the call.  lastPingRequest changes only in steps taken at least
\* 2000 ms after its old value, so two requests are at least 2000 ms apart.
C17_RequestThrottle ==
    /\ [](WithinRequestInterval => AfterRequest = [link |-> Link, tx |-> <<>>])
    /\ [](~WithinRequestInterval =>
              /\ AfterRequest.link = [Link EXCEPT !.lastRequest = millis]
              /\ AfterRequest.tx = <<sendFrame(<<255, 51>>)>>)
    /\ [][(lastPingRequest' # lastPingRequest \/ (uartTx' # uartTx /\ uartTx' # <<>>)) =>
              /\ Ge32(Sub32(millis, lastPingRequest), 2000)
              /\ lastPingRequest' = millis
              /\ Len(uartTx') = 1]_vars

\* a request went out at 2000 ms, the first moment one may, and 1500 ms later the
\* next call is still held back
C17_Witness ==
    /\ lastPingRequest = <<0, 2000>>
    /\ Sub32(millis, lastPingRequest) = <<0, 1500>>
    /\ AfterRequest.tx = <<>>

(***************************************************************************)
(* The two tasks.  loop() runs the handlers that write the inventory, the  *)
(* channels' ranges and the link flag; ioTask runs updateDisplays, which   *)
(* reads them.  Both are FreeRTOS tasks of priority 1 on core 1, so either *)
(* may be preempted inside a handler.  No lock is taken on either side.    *)
(* An access to a plain object takes a step to begin and a step to end; a  *)
(* std::atomic load or store is one step.  A read that overlaps a write of *)
(* the same plain object is a data race: what it obtains is any of the     *)
(* outcomes, the state before the write, a mix, or freed storage.          *)
(***************************************************************************)
PlainObjects == {"uartPowerplants", "range", "retranslationConnected"}
DisplayEntries == [slaveType : {GAS}, amount : {1, 2}]
DisplayReports == UNION {[1 .. n -> DisplayEntries] : n \in 0 .. 1}
DisplayRanges == {<<0, 100>>, <<-100, 100>>}
DisplayPercentages == {4000, 6000}
RaceOutcomes == {"consistent", "stale", "torn"}

DisplayInit ==
    /\ powerPlants = <<Channel(GAS, 0, 0, TRUE, 5000)>>
    /\ espApi = [null |-> FALSE, gameActive |-> TRUE, coefficients |-> [t \in {GAS} |-> 100]]
    /\ loopTask = LoopIdle
    /\ ioTask = IoIdle
    /\ ioSeen = "nothing"
    /\ uartPowerplants = <<>>
    /\ pendingDecreases = <<>>
    /\ lastUartAttractionUpdate = Zero32
    /\ millis = Zero32
    /\ ticks = 0
    /\ uartTx = <<>>
    /\ lastRetranslationPing = Zero32
    /\ lastPingRequest = Zero32
    /\ retranslationConnected = FALSE
    /\ serialNotices = NoNotices
    /\ robustUart = NewRobustUart
    /\ rxStream = <<>>
    /\ scenario = Scenario(<<>>, <<>>, 0, 0, <<>>, <<>>)
    /\ fed = 0
    /\ retLog = <<>>
    /\ lastCall = NoCall

\* the loop task enters a handler that writes the object: a read of the IO task
\* that is under way is now racing
LoopBegin(object, report, range) ==
    /\ loopTask = LoopIdle
    /\ loopTask' = [writing |-> object, report |-> report, range |-> range]
    /\ ioTask' = IF ioTask.reading = object THEN [ioTask EXCEPT !.raced = TRUE] ELSE ioTask
    /\ UNCHANGED <<gmVars, codecVars, driverVars, linkVars, uartTx, ioSeen>>

\* processUartData -> parseSlaveInfo -> updateUartPowerplants
LoopBeginInventory == \E report \in DisplayReports : LoopBegin("uartPowerplants", report, <<0, 0>>)

LoopEndInventory ==
    /\ loopTask.writing = "uartPowerplants"
    /\ \E after \in {updateUartPowerplants(GM, loopTask.report, millis)} :
           /\ uartPowerplants' = after.plants
           /\ pendingDecreases' = after.pend
    /\ loopTask' = LoopIdle
    /\ UNCHANGED <<lastUartAttractionUpdate, millis, ticks, codecVars, driverVars, linkVars,
                   uartTx, ioTask, ioSeen>>

\* updateCoefficientsFromGame: minWatts and maxWatts of the channel are assigned
LoopBeginRange == \E range \in DisplayRanges : LoopBegin("range", <<>>, range)

LoopEndRange ==
    /\ loopTask.writing = "range"
    /\ powerPlants' = [powerPlants EXCEPT ![1].minWatts = loopTask.range[1],
                                          ![1].maxWatts = loopTask.range[2]]
    /\ loopTask' = LoopIdle
    /\ UNCHANGED <<gmVars, codecVars, espApi, linkVars, uartTx, ioTask, ioSeen>>

\* onRetranslationPingReceived: retranslationConnected is assigned
LoopBeginLinkFlag == LoopBegin("retranslationConnected", <<>>, <<0, 0>>)

LoopEndLinkFlag ==
    /\ loopTask.writing = "retranslationConnected"
    /\ SetLink(onRetranslationPingReceived(Link, millis))
    /\ loopTask' = LoopIdle
    /\ UNCHANGED <<gmVars, codecVars, driverVars, uartTx, ioTask, ioSeen>>

\* update(): plant.powerPercentage = ..., a std::atomic store
LoopStorePercentage ==
    /\ loopTask = LoopIdle
    /\ \E pct \in DisplayPercentages :
           powerPlants' = [powerPlants EXCEPT ![1].powerPercentage = pct]
    /\ UNCHANGED <<gmVars, codecVars, espApi, linkVars, uartTx, taskVars>>

\* updateDisplaysImpl starts to read a plain object: the range-for over
\* uartPowerplants, plant.minWatts and plant.maxWatts, or retranslationConnected
IoBeginRead ==
    /\ ioTask = IoIdle
    /\ \E object \in PlainObjects :
           ioTask' = [reading |-> object, raced |-> loopTask.writing = object]
    /\ UNCHANGED <<gmVars, codecVars, driverVars, linkVars, uartTx, loopTask, ioSeen>>

IoEndRead ==
    /\ ioTask.reading # "none"
    /\ ioSeen' \in (IF ioTask.raced THEN RaceOutcomes ELSE {"consistent"})
    /\ ioTask' = IoIdle
    /\ UNCHANGED <<gmVars, codecVars, driverVars, linkVars, uartTx, loopTask>>

\* plant.powerPercentage.load(), a std::atomic load
IoLoadPercentage ==
    /\ ioTask = IoIdle
    /\ ioSeen' = "consistent"
    /\ UNCHANGED <<gmVars, codecVars, driverVars, linkVars, uartTx, loopTask, ioTask>>

DisplayNext ==
    \/ LoopBeginInventory
    \/ LoopEndInventory
    \/ LoopBeginRange
    \/ LoopEndRange
    \/ LoopBeginLinkFlag
    \/ LoopEndLinkFlag
    \/ LoopStorePercentage
    \/ IoBeginRead
    \/ IoEndRead
    \/ IoLoadPercentage

SpecDisplay == DisplayInit /\ [][DisplayNext]_vars

\* C18: the IO task is never inside a read of the inventory, of a channel's
\* range or of the link flag while the loop task is inside a handler that
\* writes that object, and so never obtains anything but a consistent value.
C18_NoReadDuringWrite ==
    /\ ~(ioTask.reading \in PlainObjects /\ loopTask.writing = ioTask.reading)
    /\ ioSeen \in {"nothing", "consistent"}

(***************************************************************************)
(* The serial receive path of main.cpp: processUartData hands the bytes    *)
(* that have arrived, as they are, to parseSlaveInfo.  rxStream is what the *)
(* retranslation station has put on the line, composed as the scenario     *)
(* says; a call finds any number of its bytes in the receive buffer.       *)
(* (lastUartReceive, which the handler also sets, is never read.)          *)
(***************************************************************************)
UartBufferSize == 64

Take(seq, n) == SubSeq(seq, 1, n)
Drop(seq, n) == SubSeq(seq, n + 1, Len(seq))

\* the (type, count) pairs parseSlaveInfo pushes to connectedSlaves
SlavePairs(data) ==
    [k \in 1 .. (Len(data) \div 2) |-> [slaveType |-> data[2 * k - 1], amount |-> data[2 * k]]]

\* parseSlaveInfo: an odd length is refused, anything else is a report
parseSlaveInfo(st, data, now) ==
    IF Len(data) % 2 # 0 THEN st
    ELSE updateUartPowerplants(st, SlavePairs(data), now)

SerialInit ==
    /\ scenario \in Scenarios
    /\ rxStream = Line(scenario)
    /\ robustUart = NewRobustUart
    /\ fed = 0
    /\ retLog = <<>>
    /\ lastCall = NoCall
    /\ uartPowerplants = <<>>
    /\ pendingDecreases = <<>>
    /\ lastUartAttractionUpdate = Zero32
    /\ millis = Zero32
    /\ ticks = 0
    /\ powerPlants = <<>>
    /\ espApi = NullApi
    /\ uartTx = <<>>
    /\ lastRetranslationPing = Zero32
    /\ lastPingRequest = Zero32
    /\ retranslationConnected = FALSE
    /\ serialNotices = NoNotices
    /\ loopTask = LoopIdle
    /\ ioTask = IoIdle
    /\ ioSeen = "nothing"

\* processUartData with n bytes available, at most UartBufferSize of them read
ProcessUartData ==
    /\ rxStream # <<>>
    /\ \E available \in 1 .. Len(rxStream) :
           LET bytesRead == IF available < UartBufferSize THEN available ELSE UartBufferSize
               after == parseSlaveInfo(GM, Take(rxStream, bytesRead), millis)
           IN  /\ rxStream' = Drop(rxStream, bytesRead)
               /\ fed' = fed + bytesRead
               /\ uartPowerplants' = after.plants
               /\ pendingDecreases' = after.pend
    /\ uartTx' = <<>>
    /\ UNCHANGED <<robustUart, scenario, retLog, lastCall, lastUartAttractionUpdate, millis,
                   ticks, driverVars, taskVars, linkVars>>

SerialNext == ProcessUartData

SpecSerial == SerialInit /\ [][SerialNext]_vars

\* the payloads the frame decoder reports for the line: those of the frames whose
\* CRC bytes arrive unaltered
ValidPayloads(s) == (IF s.mask = 0 THEN {s.first} ELSE {}) \cup {s.second}

\* C19: every device count in the inventory was reported, for its type, by the
\* payload of a frame that passed the decoder's sync, length and CRC validation.
C19_OnlyValidatedReports ==
    \A i \in 1 .. Len(uartPowerplants) :
        uartPowerplants[i].amount > 0 =>
            \E payload \in ValidPayloads(scenario) :
                \E pair \in {SlavePairs(payload)[k] : k \in 1 .. (Len(payload) \div 2)} :
                    /\ pair.slaveType = uartPowerplants[i].slaveType
                    /\ pair.amount = uartPowerplants[i].amount

(***************************************************************************)
(* The power computation.  One battery channel with an encoder is          *)
(* registered; the server sets its range, update() takes the percentage,   *)
(* stores computePowerPerPlant of it as powerSetting and runs the driver.  *)
(* The percentage handed to computePowerPerPlant is drawn from a grid of   *)
(* 1/10000 around the center, so that both edges of the deadband and their *)
(* neighbours occur.                                                       *)
(***************************************************************************)
PowerPercentages == {0, 10000} \cup (4970 .. 5030)
PowerRanges == {<<-100, 100>>, <<0, 100>>}
PowerApis == {[null |-> FALSE, gameActive |-> active, coefficients |-> [t \in {} |-> 0]] :
                 active \in BOOLEAN}

PowerInit ==
    /\ powerPlants = <<Channel(BATTERY, 0, 0, TRUE, 5000)>>
    /\ espApi \in PowerApis
    /\ uartPowerplants = <<>>
    /\ pendingDecreases = <<>>
    /\ lastUartAttractionUpdate = Zero32
    /\ millis = Zero32
    /\ ticks = 0
    /\ uartTx = <<>>
    /\ lastRetranslationPing = Zero32
    /\ lastPingRequest = Zero32
    /\ retranslationConnected = FALSE
    /\ serialNotices = NoNotices
    /\ loopTask = LoopIdle
    /\ ioTask = IoIdle
    /\ ioSeen = "nothing"
    /\ robustUart = NewRobustUart
    /\ rxStream = <<>>
    /\ scenario = Scenario(<<>>, <<>>, 0, 0, <<>>, <<>>)
    /\ fed = 0
    /\ retLog = <<>>
    /\ lastCall = NoCall

\* updateCoefficientsFromGame: every channel gets the range the server gives
\* (the server of the model gives all channels the same range)
ApplyRanges(ranges) ==
    /\ \E range \in ranges :
           powerPlants' = [i \in 1 .. Len(powerPlants) |->
                              [powerPlants[i] EXCEPT !.minWatts = range[1],
                                                     !.maxWatts = range[2]]]
    /\ UNCHANGED <<gmVars, codecVars, espApi, taskVars, uartTx, linkVars>>

UpdateCoefficientsFromGame == ApplyRanges(PowerRanges)

\* index of the first channel of the type that has an encoder, 0 when there is none
RECURSIVE FirstEncoderChannel(_, _, _)
FirstEncoderChannel(plants, type, i) ==
    IF i > Len(plants) THEN 0
    ELSE IF plants[i].plantType = type /\ plants[i].hasEncoder THEN i
    ELSE FirstEncoderChannel(plants, type, i + 1)

\* the loop of update() from channel i on; value is what the encoder reads
\* (channels with an encoder share the one encoder of the model)
RECURSIVE UpdatePlants(_, _, _, _)
UpdatePlants(plants, i, value, api) ==
    IF i > Len(plants) THEN plants
    ELSE LET plant == plants[i]
             hs == FirstChannel(plants, HYDRO_STORAGE, 1)
             bat == FirstEncoderChannel(plants, BATTERY, 1)
             own == IF plant.hasEncoder
                    THEN [plants EXCEPT ![i].powerPercentage = value]
                    ELSE [plants EXCEPT ![i].powerPercentage = 10000]
             read == IF plant.hasEncoder /\ plant.plantType = BATTERY /\ hs # 0
                     THEN [own EXCEPT ![hs].powerPercentage = value]
                     ELSE IF plant.hasEncoder /\ plant.plantType = HYDRO_STORAGE /\ bat # 0
                     THEN [own EXCEPT ![i].powerPercentage = value]
                     ELSE own
             done == [read EXCEPT ![i].powerSetting = computePowerPerPlant(read[i], api)]
         IN  UpdatePlants(done, i + 1, value, api)

\* update(): percentages, powerSetting, then updateAttractionStates
UpdateFrom(values) ==
    \E value \in values :
        LET plants == UpdatePlants(powerPlants, 1, value, espApi)
            run == updateAttractionStates(GM, lastUartAttractionUpdate, plants, espApi, millis)
        IN  /\ powerPlants' = plants
            /\ uartPowerplants' = run.plants
            /\ pendingDecreases' = run.pend
            /\ uartTx' = run.tx
            /\ lastUartAttractionUpdate' = run.last
            /\ UNCHANGED <<millis, ticks, codecVars, espApi, taskVars, linkVars>>

Update == UpdateFrom(PowerPercentages)

PowerNext == UpdateCoefficientsFromGame \/ Update

SpecPower == PowerInit /\ [][PowerNext]_vars

\* the channel has the range -100 .. 100 and the game is active
SymmetricActive ==
    /\ powerPlants[1].minWatts = -100
    /\ powerPlants[1].maxWatts = 100
    /\ isGameActive(espApi)

PowerAt(pct) == computePowerPerPlant([powerPlants[1] EXCEPT !.powerPercentage = pct], espApi)

\* C20: for the channel with the range -100 .. 100 and the game active,
\* computePowerPerPlant is 0 for every percentage from 0.4975 to 0.5025 and is
\* not 0 for the percentages next to the band, 0.4974 and 0.5026, nor for any
\* other percentage outside it; update() stores that value as powerSetting.
C20_Deadband ==
    /\ [](SymmetricActive =>
              /\ \A pct \in 4975 .. 5025 : PowerAt(pct) = 0
              /\ PowerAt(4974) # 0
              /\ PowerAt(5026) # 0
              /\ \A pct \in PowerPercentages \ (4975 .. 5025) : PowerAt(pct) # 0)
    /\ [][(/\ SymmetricActive
            /\ powerPlants'[1].minWatts = powerPlants[1].minWatts
            /\ powerPlants'[1].maxWatts = powerPlants[1].maxWatts) =>
              (powerPlants'[1].powerSetting = 0
                   <=> powerPlants'[1].powerPercentage \in 4975 .. 5025)]_vars

\* update() has taken the percentage 0.5025, the upper edge of the band, and has
\* stored 0 for it
C20_Witness ==
    /\ SymmetricActive
    /\ powerPlants[1].powerPercentage = 5025
    /\ powerPlants[1].powerSetting = 0

(***************************************************************************)
(* The kinds' command rules.  One channel of any kind is registered, or    *)
(* the battery with the hydro storage that shares its encoder; the server  *)
(* gives ranges and coefficients, the devices of the registered kinds are  *)
(* reported, update() reads the encoder and runs the driver.               *)
(***************************************************************************)
KindPercentages == {0, 490, 500, 5000, 5010, 6000, 10000}    \* encoder positions, in 1/10000
KindRanges == {<<-100, 100>>, <<0, 500>>}
KindCoefficients == {50, 51}        \* 0.5 and 0.51, in 1/100
KindAmounts == {2}

\* the kinds main.cpp registers without an encoder
NoEncoderKinds == {WIND, PHOTOVOLTAIC}

KindRegistries ==
    {<<Channel(kind, 0, 0, kind \notin NoEncoderKinds,
               IF kind \in NoEncoderKinds THEN 10000 ELSE 5000)>> : kind \in 1 .. 8}
        \cup {<<Channel(BATTERY, 0, 0, TRUE, 5000), Channel(HYDRO_STORAGE, 0, 0, TRUE, 5000)>>}

KindApis ==
    {NullApi}
        \cup {[null |-> FALSE, gameActive |-> TRUE, coefficients |-> [t \in 1 .. 8 |-> c]] :
                  c \in KindCoefficients}
        \cup {[null |-> FALSE, gameActive |-> FALSE, coefficients |-> [t \in 1 .. 8 |-> 51]]}

KindsInit ==
    /\ powerPlants \in KindRegistries
    /\ espApi \in KindApis
    /\ uartPowerplants = <<>>
    /\ pendingDecreases = <<>>
    /\ lastUartAttractionUpdate = Zero32
    /\ millis = Zero32
    /\ ticks = 0
    /\ uartTx = <<>>
    /\ lastRetranslationPing = Zero32
    /\ lastPingRequest = Zero32
    /\ retranslationConnected = FALSE
    /\ serialNotices = NoNotices
    /\ loopTask = LoopIdle
    /\ ioTask = IoIdle
    /\ ioSeen = "nothing"
    /\ robustUart = NewRobustUart
    /\ rxStream = <<>>
    /\ scenario = Scenario(<<>>, <<>>, 0, 0, <<>>, <<>>)
    /\ fed = 0
    /\ retLog = <<>>
    /\ lastCall = NoCall

\* the report that names the devices of every registered kind
KindReports ==
    {[i \in 1 .. Len(powerPlants) |-> [slaveType |-> powerPlants[i].plantType, amount |-> n]] :
         n \in KindAmounts}

ParseKindReport == ParseReport(KindReports)
KindRangesFromGame == ApplyRanges(KindRanges)
KindUpdate == UpdateFrom(KindPercentages)

KindTick == Advance(TickSteps, MaxKindTicks)

KindsNext == ParseKindReport \/ KindRangesFromGame \/ KindUpdate \/ KindTick

SpecKinds == KindsInit /\ [][KindsNext]_vars

\* the encoder positions 0.00, 0.01 .. 1.00 and the ones next to the edges of the rules
PercentGrid == {100 * k : k \in 0 .. 100} \cup {490, 990, 4990, 5010, 9990}

\* the channel the driver uses for the type, after the step
ChannelOf(type) == powerPlants'[FirstChannel(powerPlants', type, 1)]

\* a driver run of this step has a command to send for the type's registered channel
RunFor(type) ==
    /\ RunStep
    /\ FirstChannel(powerPlants', type, 1) # 0
    /\ findCurrentAmount(uartPowerplants', type) > 0

\* the only command sent to the type in this step, 0 when there is not exactly one
SentTo(type) ==
    LET frames == FramesFor(uartTx', type)
    IN  IF Len(frames) = 1 /\ Len(frames[1]) = 7 THEN FrameCommand(frames[1]) ELSE 0

\* max(1, floor(pct * 10)) clamped to 10
GasLevel(pct) ==
    LET floor == pct \div 1000
    IN  IF floor < 1 THEN 1 ELSE IF floor > 10 THEN 10 ELSE floor

GasCommandAt(pct, maxWatts) == FrameCommand(updateGas(GAS, Channel(GAS, 0, maxWatts, TRUE, pct)))

\* C21: with maxPower > 0 the gas command is OFF for a percentage below 0.05 and
\* 0x05 + level for a percentage from 0.05 to 1.0, level being
\* max(1, floor(pct * 10)) clamped to 10: 0.049 gives OFF, 0.05 level 1 (0x06),
\* 1.0 level 10 (0x0F), and no level outside 1 .. 10 is sent; a driver run sends
\* the gas devices that command for the percentage update() has read.
C21_GasQuantization ==
    /\ \A pct \in PercentGrid :
           /\ GasCommandAt(pct, 500) = IF pct < 500 THEN CMD_OFF ELSE 5 + GasLevel(pct)
           /\ GasLevel(pct) \in 1 .. 10
    /\ GasCommandAt(490, 500) = CMD_OFF
    /\ GasCommandAt(500, 500) = 6
    /\ GasCommandAt(10000, 500) = 15
    /\ [][RunFor(GAS) /\ ChannelOf(GAS).maxWatts > 0 =>
              LET pct == ChannelOf(GAS).powerPercentage
              IN  SentTo(GAS) = IF pct < 500 THEN CMD_OFF ELSE 5 + GasLevel(pct)]_vars

\* a run has sent level 1 to the gas devices for the percentage 0.05
C21_Witness ==
    /\ powerPlants[1].plantType = GAS
    /\ powerPlants[1].maxWatts > 0
    /\ powerPlants[1].powerPercentage = 500
    /\ Len(uartTx) = 1
    /\ FrameType(uartTx[1]) = GAS
    /\ FrameCommand(uartTx[1]) = 6

\* C22: for wind and for hydro the command of a driver run does not depend on
\* the local percentage: it is ON exactly when the remote coefficient of the
\* type is above the threshold 0.5, and OFF otherwise, also when there is no
\* coefficient data.
C22_CoefficientOnly ==
    [][\A type \in {WIND, HYDRO} :
           RunFor(type) =>
               SentTo(type) = IF getProductionCoefficientForType(espApi', type) > 50
                              THEN CMD_ON ELSE CMD_OFF]_vars

\* the battery sibling is present after the step: a battery channel is
\* registered and the inventory holds battery devices
BatteryPresent ==
    /\ FirstChannel(powerPlants', BATTERY, 1) # 0
    /\ findCurrentAmount(uartPowerplants', BATTERY) > 0

\* C23: when the battery sibling is present, a driver run sends no command of
\* its own to the storage-indicator type HYDRO_STORAGE: only the battery's
\* update path transmits.
C23_NoStorageCommandBesideBattery ==
    [][RunStep /\ BatteryPresent => FramesFor(uartTx', HYDRO_STORAGE) = <<>>]_vars

\* the answers of the server about the game: none, inactive, active
RuleApis == {NullApi,
             [null |-> FALSE, gameActive |-> FALSE, coefficients |-> [t \in 1 .. 8 |-> 51]],
             [null |-> FALSE, gameActive |-> TRUE, coefficients |-> [t \in 1 .. 8 |-> 51]]}

\* the ranges of registration, of a disabled type, and the ones the server gives
RuleRanges == {<<0, 0>>, <<-100, 0>>} \cup KindRanges

\* the encoder positions 0.0, 0.1 .. 1.0, the edges of the center deadband and of
\* the storage levels
StorageGrid == {1000 * k : k \in 0 .. 10}
                   \cup {4970, 4974, 4975, 4980, 5020, 5025, 5026, 5030}
                   \cup {1990, 2010, 3990, 4010, 5990, 6010, 7990, 8010}

\* IDLE, CHARGE or DISCHARGE by the sign of the power
BatteryCommandFor(power) ==
    IF power = 0 THEN CMD_BATTERY_IDLE
    ELSE IF power < 0 THEN CMD_BATTERY_CHARGE
    ELSE CMD_BATTERY_DISCHARGE

BatteryCommandAt(plant, api) == FrameCommand(updateBattery(BATTERY, plant, api))

\* C24: the battery command is IDLE (0x03) exactly when computePower is 0,
\* CHARGE (0x04) exactly when it is negative and DISCHARGE (0x05) exactly when
\* it is positive; it is IDLE whenever the game is inactive, maxPower <= 0, or
\* the percentage lies in the center deadband of a symmetric range; a driver
\* run sends the battery devices that command.
C24_BatteryCommand ==
    /\ \A pct \in StorageGrid, range \in RuleRanges, api \in RuleApis :
           LET plant == Channel(BATTERY, range[1], range[2], TRUE, pct)
               power == computePowerPerPlant(plant, api)
               idle == \/ ~isGameActive(api)
                       \/ range[2] <= 0
                       \/ range[1] = -range[2] /\ pct \in 4975 .. 5025
           IN  /\ BatteryCommandAt(plant, api) = BatteryCommandFor(power)
               /\ idle => power = 0
    /\ [][RunFor(BATTERY) =>
              /\ SentTo(BATTERY)
                     = BatteryCommandFor(computePowerPerPlant(ChannelOf(BATTERY), espApi'))
              /\ SentTo(BATTERY) = BatteryCommandFor(ChannelOf(BATTERY).powerSetting)]_vars

\* a run has sent CHARGE to the battery devices: the game is active, the range
\* is symmetric and the encoder is at 0
C24_Witness ==
    /\ powerPlants[1].plantType = BATTERY
    /\ isGameActive(espApi)
    /\ powerPlants[1].minWatts = -powerPlants[1].maxWatts
    /\ powerPlants[1].powerPercentage = 0
    /\ powerPlants[1].powerSetting < 0
    /\ FramesFor(uartTx, BATTERY) = <<sendFrame(<<BATTERY, CMD_BATTERY_CHARGE>>)>>

\* computePower over half the range, in tenths, against the thresholds: power and
\* the half range are in 1/10000 W, so power / half <= -0.6 is power * 10 <= -6 * half
StorageCommandFor(plant, api) ==
    IF plant.maxWatts <= 0 THEN CMD_OFF
    ELSE LET power == computePowerPerPlant(plant, api)
             half == (plant.maxWatts - plant.minWatts) * 5000
         IN  IF power * 10 <= -6 * half THEN CMD_HYDRO_STORAGE_LEVEL_5
             ELSE IF power * 10 <= -2 * half THEN CMD_HYDRO_STORAGE_LEVEL_4
             ELSE IF power * 10 >= 6 * half THEN CMD_HYDRO_STORAGE_LEVEL_1
             ELSE IF power * 10 >= 2 * half THEN CMD_HYDRO_STORAGE_LEVEL_2
             ELSE CMD_HYDRO_STORAGE_LEVEL_3

StorageCommandAt(plant, api) == FrameCommand(updateHydroStorage(HYDRO_STORAGE, plant, api))

\* C25: the storage-indicator command is OFF when maxPower <= 0; otherwise
\* computePower over half the range is mapped to one of five levels by the
\* thresholds -0.6, -0.2, +0.2, +0.6 (<= -0.6 level 5, <= -0.2 level 4, >= 0.6
\* level 1, >= 0.2 level 2, else level 3), so every input gives OFF or one of
\* the codes 0x0B .. 0x0F; a driver run sends the storage devices that command.
C25_StorageLevels ==
    /\ \A pct \in StorageGrid, range \in RuleRanges, api \in RuleApis :
           LET plant == Channel(HYDRO_STORAGE, range[1], range[2], TRUE, pct)
           IN  /\ StorageCommandAt(plant, api) = StorageCommandFor(plant, api)
               /\ StorageCommandFor(plant, api) \in {CMD_OFF} \cup (11 .. 15)
               /\ range[2] <= 0 <=> StorageCommandFor(plant, api) = CMD_OFF
    /\ [][RunFor(HYDRO_STORAGE) =>
              SentTo(HYDRO_STORAGE) = StorageCommandFor(ChannelOf(HYDRO_STORAGE), espApi')]_vars

\* a run has sent level 2 to the storage devices: the game is active, the range
\* is -100 .. 100 and the encoder is at 0.6, which is 0.2 of the half range
C25_Witness ==
    \E k \in 1 .. Len(powerPlants) :
        /\ powerPlants[k].plantType = HYDRO_STORAGE
        /\ isGameActive(espApi)
        /\ powerPlants[k].minWatts = -100
        /\ powerPlants[k].maxWatts = 100
        /\ powerPlants[k].powerPercentage = 6000
        /\ FramesFor(uartTx, HYDRO_STORAGE)
               = <<sendFrame(<<HYDRO_STORAGE, CMD_HYDRO_STORAGE_LEVEL_2>>)>>

\* calculateTotalPowerForType in the current state
TotalPowerForType(type) ==
    calculateTotalPowerForType(uartPowerplants, powerPlants, espApi, type)

ActiveApi == [null |-> FALSE, gameActive |-> TRUE, coefficients |-> [t \in 1 .. 8 |-> 51]]

\* C26: calculateTotalPowerForType(type) is computePower(channel) times the
\* authoritative count of the type, and is 0 when the type has no registered
\* channel, has no inventory entry or a count of 0, or the channel's maxPower
\* is <= 0; the inventory {COAL: 2} with the range 0 .. 500, the percentage 0.6
\* and the game active gives 300 W per device and 600 W in total (powers are in
\* 1/10000 W).
C26_TotalPower ==
    /\ \A type \in 0 .. 9 :
           LET k == FirstChannel(powerPlants, type, 1)
               count == findCurrentAmount(uartPowerplants, type)
           IN  TotalPowerForType(type)
                   = IF k = 0 \/ count <= 0 THEN 0
                     ELSE IF powerPlants[k].maxWatts <= 0 THEN 0
                     ELSE computePowerPerPlant(powerPlants[k], espApi) * count
    /\ LET coal == Channel(COAL, 0, 500, TRUE, 6000)
           inventory == <<[slaveType |-> COAL, amount |-> 2]>>
       IN  /\ computePowerPerPlant(coal, ActiveApi) = 300 * 10000
           /\ calculateTotalPowerForType(inventory, <<coal>>, ActiveApi, COAL) = 600 * 10000
           /\ calculateTotalPowerForType(<<>>, <<coal>>, ActiveApi, COAL) = 0
           /\ calculateTotalPowerForType(inventory, <<>>, ActiveApi, COAL) = 0

\* the state of the example: two coal devices, the coal channel with the range
\* 0 .. 500 at 0.6, the game active: 600 W in total
C26_Witness ==
    /\ powerPlants[1].plantType = COAL
    /\ powerPlants[1].minWatts = 0
    /\ powerPlants[1].maxWatts = 500
    /\ powerPlants[1].powerPercentage = 6000
    /\ isGameActive(espApi)
    /\ findCurrentAmount(uartPowerplants, COAL) = 2
    /\ TotalPowerForType(COAL) = 600 * 10000

\* the kinds that are plainly switched on and off
ThresholdKinds == {NUCLEAR, COAL}

\* ON above 0.5 with a positive maxPower, OFF otherwise
ThresholdCommandFor(plant) ==
    IF plant.powerPercentage > 5000 /\ plant.maxWatts > 0 THEN CMD_ON ELSE CMD_OFF

\* C28: for nuclear and coal the command is ON exactly when the percentage is
\* above 0.5 and maxPower is above 0, and OFF otherwise; a percentage of exactly
\* 0.5 gives OFF; a driver run sends the devices of the kind that command.
C28_ThresholdKinds ==
    /\ \A kind \in ThresholdKinds, pct \in StorageGrid \cup {4990, 5000, 5010},
              range \in RuleRanges, api \in {NullApi, ActiveApi} :
           LET plant == Channel(kind, range[1], range[2], TRUE, pct)
           IN  FrameCommand(KindCommand(kind, plant, api)) = ThresholdCommandFor(plant)
    /\ \A kind \in ThresholdKinds :
           FrameCommand(KindCommand(kind, Channel(kind, 0, 500, TRUE, 5000), ActiveApi)) = CMD_OFF
    /\ [][\A kind \in ThresholdKinds :
              RunFor(kind) => SentTo(kind) = ThresholdCommandFor(ChannelOf(kind))]_vars

\* a run has sent OFF to the nuclear devices with the encoder at exactly 0.5 and
\* a positive maxPower
C28_Witness ==
    /\ powerPlants[1].plantType = NUCLEAR
    /\ powerPlants[1].maxWatts > 0
    /\ powerPlants[1].powerPercentage = 5000
    /\ FramesFor(uartTx, NUCLEAR) = <<sendFrame(<<NUCLEAR, CMD_OFF>>)>>

(***************************************************************************)
(* The transmit functions.  The driver calls sendCmd2B and                 *)
(* sendAttractionCommand; the latter is defined twice with external        *)
(* linkage, in uart_link.cpp (framed, ON 0x01 / OFF 0x02) and in main.cpp  *)
(* (the struct AttractionCommand written to the UART as it is), so which   *)
(* definition a call reaches is a choice of the build.                     *)
(***************************************************************************)
CommandTypes == 1 .. 8
CommandCodes == 0 .. 31             \* cmd4 arguments, some above the low nibble
AttractionStates == {0, 1}

\* sendAttractionCommand of main.cpp: uartComm.write of {slaveType, state}
sendAttractionCommandRaw(slaveType, state) == <<slaveType, state>>

CommandInit ==
    /\ powerPlants = <<>>
    /\ espApi = NullApi
    /\ uartPowerplants = <<>>
    /\ pendingDecreases = <<>>
    /\ lastUartAttractionUpdate = Zero32
    /\ millis = Zero32
    /\ ticks = 0
    /\ uartTx = <<>>
    /\ lastRetranslationPing = Zero32
    /\ lastPingRequest = Zero32
    /\ retranslationConnected = FALSE
    /\ serialNotices = NoNotices
    /\ loopTask = LoopIdle
    /\ ioTask = IoIdle
    /\ ioSeen = "nothing"
    /\ robustUart = NewRobustUart
    /\ rxStream = <<>>
    /\ scenario = Scenario(<<>>, <<>>, 0, 0, <<>>, <<>>)
    /\ fed = 0
    /\ retLog = <<>>
    /\ lastCall = NoCall

SendCmd2B ==
    /\ \E slaveType \in CommandTypes, cmd4 \in CommandCodes :
           uartTx' = <<sendCmd2B(slaveType, cmd4)>>
    /\ UNCHANGED <<gmVars, codecVars, driverVars, taskVars, linkVars>>

SendAttractionCommand ==
    /\ \E slaveType \in CommandTypes, state \in AttractionStates :
           uartTx' \in {<<sendAttractionCommand(slaveType, state)>>,
                        <<sendAttractionCommandRaw(slaveType, state)>>}
    /\ UNCHANGED <<gmVars, codecVars, driverVars, taskVars, linkVars>>

CommandNext == SendCmd2B \/ SendAttractionCommand

SpecCommand == CommandInit /\ [][CommandNext]_vars

\* C27: every command the board transmits to the relay is a frame whose payload
\* is exactly the 2 bytes [deviceType, command], with the command confined to
\* the low nibble; ON is sent as 0x01 and OFF as 0x02.
C27_FramedTwoBytes ==
    \A i \in 1 .. Len(uartTx) :
        LET frame == uartTx[i]
        IN  /\ Len(frame) = 7
            /\ frame[1] = SYNC1
            /\ frame[2] = SYNC2
            /\ frame[3] = 2
            /\ frame[4] \in CommandTypes
            /\ frame[5] \in 0 .. 15
            /\ frame = sendFrame(<<frame[4], frame[5]>>)

(***************************************************************************)
(* The report specification: reports arrive and the clock advances; the    *)
(* pending decreases are staged and committed by updateUartPowerplants     *)
(* alone.                                                                  *)
(***************************************************************************)
ReportTick == Advance(TickSteps, MaxTicks)

ReportNext == ParseSlaveInfo \/ ReportTick

SpecReports == Init /\ [][ReportNext]_vars

\* the pending set after the loop over the reported entries has taken the entry
\* (type, amount), before the commit at the end of the call
StagedBy(type, amount) ==
    ProcessIncoming(GM, [slaveType |-> type, amount |-> amount], millis).pend

\* positions of the pending changes of the type that target amount / another count
Targeting(type, amount) ==
    {j \in 1 .. Len(pendingDecreases) :
         /\ pendingDecreases[j].slaveType = type
         /\ pendingDecreases[j].targetAmount = amount}
TargetingOther(type, amount) ==
    {j \in 1 .. Len(pendingDecreases) :
         /\ pendingDecreases[j].slaveType = type
         /\ pendingDecreases[j].targetAmount # amount}

StagedReport(report) == stageReport(GM, report, millis)

Due(pd) == Ge32(Age(pd), DECREASE_GRACE_MS)

\* C30: at the end of every updateUartPowerplants call every pending change
\* whose age (now - firstSeen) is at least 500 ms has been written into the
\* inventory count of its type, which is then its target, and is no longer
\* pending; every pending change younger than 500 ms is still pending.
C30_DueCommittedYoungKept ==
    \A report \in Reports :
        LET staged == StagedReport(report)
            after == AfterReport(report)
        IN  /\ after.pend = SelectSeq(staged.pend, LAMBDA pd : ~Due(pd))
            /\ \A j \in 1 .. Len(staged.pend) :
                   Due(staged.pend[j]) =>
                       findCurrentAmount(after.plants, staged.pend[j].slaveType)
                           = staged.pend[j].targetAmount

(***************************************************************************)
(* The decoder, state by state                                             *)
(***************************************************************************)
\* a decoder that has just seen SYNC1
InWaitSync2 == [NewRobustUart EXCEPT !.rxState = "WAIT_SYNC2"]

\* this step is a call of processByte
ByteStep == fed' = fed + 1

\* C31: in WAIT_SYNC2 the decoder moves to READ_LEN only on SYNC2 (0x55); on a
\* byte equal to SYNC1 (0xAA) it stays in WAIT_SYNC2, taking the byte for a
\* fresh frame start; any other byte is counted as a sync error and sends the
\* decoder back to WAIT_SYNC1.
C31_WaitSync2 ==
    /\ \A byte \in 0 .. 255 :
           LET r == processByte(InWaitSync2, byte)
           IN  /\ r.ret = FALSE
               /\ r.u.rxState = (IF byte = SYNC2 THEN "READ_LEN"
                                 ELSE IF byte = SYNC1 THEN "WAIT_SYNC2"
                                 ELSE "WAIT_SYNC1")
               /\ byte \notin {SYNC1, SYNC2} => r.u.syncErrors = InWaitSync2.syncErrors + 1
               /\ byte = SYNC2 => r.u.syncErrors = InWaitSync2.syncErrors
    /\ [][ByteStep /\ robustUart.rxState = "WAIT_SYNC2" =>
              LET byte == Head(rxStream)
              IN  /\ robustUart'.rxState = (IF byte = SYNC2 THEN "READ_LEN"
                                            ELSE IF byte = SYNC1 THEN "WAIT_SYNC2"
                                            ELSE "WAIT_SYNC1")
                  /\ byte \notin {SYNC1, SYNC2} =>
                         robustUart'.syncErrors = robustUart.syncErrors + 1]_vars

\* the decoder was in WAIT_SYNC2, was given a second 0xAA and is still there
C31_Witness ==
    /\ lastCall.op = "processByte"
    /\ lastCall.before.rxState = "WAIT_SYNC2"
    /\ lastCall.byte = SYNC1
    /\ robustUart.rxState = "WAIT_SYNC2"

(***************************************************************************)
(* The resync specification.  The line carries a prefix (nothing, or the   *)
(* start of a frame that was cut off) and then one valid frame repeated    *)
(* without end; the caller resets the decoder after each frame-ready.      *)
(* rxStream is what is left of the prefix or of the current copy of the    *)
(* frame, retLog the return value of the latest call; the statistics       *)
(* counters, which no decision reads, count modulo MaxCounted + 1.         *)
(***************************************************************************)
ResyncPayloads == {<<1, 2>>, <<1, 2, 3>>, <<153, 170, 85>>}     \* the last holds the sync pair
ResyncPrefixes == {<<>>, <<0>>, <<170>>, <<170, 85, 1>>, <<170, 85, 2>>, <<170, 85, 3, 1>>}

ResyncInit ==
    /\ scenario \in {Scenario(g, <<>>, 0, 0, p, <<>>) : g \in ResyncPrefixes, p \in ResyncPayloads}
    /\ rxStream = scenario.garbage \o SecondFrame(scenario)
    /\ robustUart = NewRobustUart
    /\ fed = 0
    /\ retLog = <<>>
    /\ lastCall = NoCall
    /\ uartPowerplants = <<>>
    /\ pendingDecreases = <<>>
    /\ lastUartAttractionUpdate = Zero32
    /\ millis = Zero32
    /\ ticks = 0
    /\ powerPlants = <<>>
    /\ espApi = NullApi
    /\ uartTx = <<>>
    /\ lastRetranslationPing = Zero32
    /\ lastPingRequest = Zero32
    /\ retranslationConnected = FALSE
    /\ serialNotices = NoNotices
    /\ loopTask = LoopIdle
    /\ ioTask = IoIdle
    /\ ioSeen = "nothing"

\* the receiver takes the next byte off the line, on which the sender repeats the frame
PushRepeated ==
    /\ robustUart.rxState # "FRAME_READY"
    /\ LET r == processByte(robustUart, Head(rxStream))
       IN  /\ robustUart' = [r.u EXCEPT !.syncErrors = @ % (MaxCounted + 1),
                                        !.crcErrors = @ % (MaxCounted + 1),
                                        !.framesReceived = @ % (MaxCounted + 1)]
           /\ retLog' = <<r.ret>>
    \* the line never runs dry: the frame follows itself
    /\ rxStream' = IF Len(rxStream) = 1 THEN SecondFrame(scenario) ELSE Tail(rxStream)
    /\ lastCall' = NoCall
    /\ UNCHANGED <<fed, scenario, gmVars, driverVars, taskVars, uartTx, linkVars>>

\* the caller has consumed the ready frame and resets the decoder
ResyncCallerReset ==
    /\ robustUart.rxState = "FRAME_READY"
    /\ robustUart' = resetRx(robustUart)
    /\ lastCall' = NoCall
    /\ UNCHANGED <<rxStream, scenario, fed, retLog, gmVars, driverVars, taskVars, uartTx, linkVars>>

ResyncNext == PushRepeated \/ ResyncCallerReset

\* the sender keeps sending and the caller keeps calling
SpecResync == ResyncInit /\ [][ResyncNext]_vars /\ WF_vars(PushRepeated) /\ WF_vars(ResyncCallerReset)

\* C32: the decoder cannot stay desynchronised for ever: after any prefix of
\* bytes, when the sender repeats a valid frame without end and the caller
\* resets the decoder after each frame-ready, a frame-ready is eventually
\* reported.
C32_EventuallyReady == <>(robustUart.rxState = "FRAME_READY")

(***************************************************************************)
(* C33                                                                     *)
(***************************************************************************)
\* a is later than b, both unsigned 32-bit stamps of a clock that has not wrapped
After32(a, b) == a[1] > b[1] \/ (a[1] = b[1] /\ a[2] > b[2])

\* a step in which the link is declared disconnected
DeclaredDisconnected == retranslationConnected /\ ~retranslationConnected'

\* C33: whenever the retranslation link is declared disconnected, a status request
\* has been stamped later than the last response received (in the declaring call at
\* the latest, where the request precedes the timeout evaluation), and the request
\* stamp only ever moves in a call that hands the status-request frame to the UART.
C33_RequestBeforeDisconnect ==
    [][/\ DeclaredDisconnected => After32(lastPingRequest', lastRetranslationPing')
       /\ lastPingRequest' # lastPingRequest
              => /\ uartTx' = <<sendFrame(StatusRequestPayload)>>
                 /\ lastPingRequest' = millis]_vars

\* the link has been declared disconnected by a call that itself sent the request
C33_Witness ==
    /\ ~retranslationConnected
    /\ serialNotices.disconnected = 1
    /\ uartTx = <<sendFrame(StatusRequestPayload)>>
    /\ lastPingRequest = millis
    /\ Ge32(Sub32(millis, lastRetranslationPing), RETRANSLATION_TIMEOUT_MS + 1)

(***************************************************************************)
(* The inventory frames taken through RobustUartHelpers::parseSlaveInfo.   *)
(* The helper works on the vector its caller hands it by reference (the    *)
(* connectedSlaves of main.cpp) and passes that same vector on; lastCall   *)
(* holds the payload of the last call and the vector as the call left it.  *)
(***************************************************************************)
HelperPayloads == {<<1>>, <<1, 2>>, <<1, 1>>, <<1, 0>>, <<2, 1>>, <<1, 2, 2, 1>>, <<1, 1, 1, 2>>}

HelperIdle == [op |-> "none", payload |-> <<>>, connectedSlaves |-> <<>>, handed |-> FALSE]

\* connectedSlaves.erase(remove_if(... s.slaveType == type ...))
EraseSlaveType(slaves, type) ==
    LET Other(s) == s.slaveType # type
    IN  SelectSeq(slaves, Other)

\* one pass of the loop: set the amount of the first entry of the type or push a new
\* entry, then erase the entries of the type when the amount is zero
MergeSlavePair(slaves, pair) ==
    LET hits == {i \in DOMAIN slaves : slaves[i].slaveType = pair.slaveType}
        first == CHOOSE i \in hits : \A j \in hits : i <= j
        set == IF hits # {} THEN [slaves EXCEPT ![first].amount = pair.amount]
                            ELSE Append(slaves, pair)
    IN  IF pair.amount = 0 THEN EraseSlaveType(set, pair.slaveType) ELSE set

RECURSIVE MergeSlavePairs(_, _, _)
MergeSlavePairs(slaves, pairs, k) ==
    IF k > Len(pairs) THEN slaves
    ELSE MergeSlavePairs(MergeSlavePair(slaves, pairs[k]), pairs, k + 1)

\* RobustUartHelpers::parseSlaveInfo: [slaves |-> the caller's vector after the call,
\* handed |-> whether it was passed to updateUartPowerplants]
RobustUartHelpers_parseSlaveInfo(connectedSlaves, payload) ==
    IF Len(payload) % 2 # 0
    THEN [slaves |-> connectedSlaves, handed |-> FALSE]
    ELSE [slaves |-> MergeSlavePairs(connectedSlaves, SlavePairs(payload), 1),
          handed |-> TRUE]

HelperInit ==
    /\ lastCall = HelperIdle
    /\ uartPowerplants = <<>>
    /\ pendingDecreases = <<>>
    /\ lastUartAttractionUpdate = Zero32
    /\ millis = Zero32
    /\ ticks = 0
    /\ robustUart = NewRobustUart
    /\ rxStream = <<>>
    /\ scenario = Scenario(<<>>, <<>>, 0, 0, <<>>, <<>>)
    /\ fed = 0
    /\ retLog = <<>>
    /\ powerPlants = <<>>
    /\ espApi = NullApi
    /\ uartTx = <<>>
    /\ lastRetranslationPing = Zero32
    /\ lastPingRequest = Zero32
    /\ retranslationConnected = FALSE
    /\ serialNotices = NoNotices
    /\ loopTask = LoopIdle
    /\ ioTask = IoIdle
    /\ ioSeen = "nothing"

\* one decoded inventory frame is parsed into the caller's vector
HelperParseSlaveInfo ==
    \E payload \in HelperPayloads :
        LET done == RobustUartHelpers_parseSlaveInfo(lastCall.connectedSlaves, payload)
            after == IF done.handed THEN updateUartPowerplants(GM, done.slaves, millis)
                                    ELSE GM
        IN  /\ lastCall' = [op |-> "parseSlaveInfo", payload |-> payload,
                            connectedSlaves |-> done.slaves, handed |-> done.handed]
            /\ uartPowerplants' = after.plants
            /\ pendingDecreases' = after.pend
            /\ uartTx' = <<>>
            /\ UNCHANGED <<robustUart, rxStream, scenario, fed, retLog,
                           lastUartAttractionUpdate, millis, ticks,
                           driverVars, taskVars, linkVars>>

HelperNext == HelperParseSlaveInfo \/ Tick

SpecHelper == HelperInit /\ [][HelperNext]_vars

(***************************************************************************)
(* C34                                                                     *)
(***************************************************************************)
\* C34: the report a call of parseSlaveInfo hands to updateUartPowerplants is
\* exactly the sequence of (type, count) pairs of the frame it was called with, so
\* a type the frame does not name is not in the report.
C34_ReportIsCurrentFrame ==
    (lastCall.op = "parseSlaveInfo" /\ lastCall.handed)
        => lastCall.connectedSlaves = SlavePairs(lastCall.payload)

(***************************************************************************)
(* C35                                                                     *)
(***************************************************************************)
\* no two entries of the inventory carry the same device type
OneEntryPerType(plants) ==
    \A i, j \in 1 .. Len(plants) : plants[i].slaveType = plants[j].slaveType => i = j

\* every entry is still there, at its place, with its type
EntriesKept ==
    /\ Len(uartPowerplants') >= Len(uartPowerplants)
    /\ \A i \in 1 .. Len(uartPowerplants) :
           uartPowerplants'[i].slaveType = uartPowerplants[i].slaveType

\* C35: after every step (reports naming valid and invalid types, a type listed twice
\* included, driver runs, clock steps) the inventory holds at most one entry per device
\* type and only valid types, and every entry it held before the step is still
\* there, in insertion order; only its count may have changed.
C35_OneEntryPerTypeKept ==
    [][/\ OneEntryPerType(uartPowerplants')
       /\ \A type \in TypesOf(uartPowerplants') : isValidSlaveType(type)
       /\ EntriesKept]_vars

\* two types are in the inventory and the count of the one that is only ever
\* reported with a positive count has dropped to zero
C35_Witness ==
    /\ Len(uartPowerplants) = 2
    /\ OneEntryPerType(uartPowerplants)
    /\ \E i \in 1 .. 2 : /\ uartPowerplants[i].slaveType \in OtherTypes
                          /\ uartPowerplants[i].amount = 0

(***************************************************************************)
(* C36.  The reference CRC16-CCITT as the bit-serial shift register: the   *)
(* message bits enter most significant first; the register, preset to      *)
(* 0xFFFF, is shifted left by one and the polynomial 0x1021 is XORed in     *)
(* when the bit shifted out differs from the message bit.                  *)
(***************************************************************************)
RefRegister(reg, bit) ==
    LET out == reg \div 32768
        shifted == (reg * 2) % 65536
    IN  IF out # bit THEN BitXor(shifted, 4129) ELSE shifted

\* the bits of one byte, from place 7 down to place 0
RECURSIVE RefBits(_, _, _)
RefBits(reg, byte, place) ==
    IF place < 0 THEN reg
    ELSE CHOOSE r \in {RefBits(next, byte, place - 1) :
                           next \in {RefRegister(reg, (byte \div (2 ^ place)) % 2)}} : TRUE

RECURSIVE RefFrom(_, _, _)
RefFrom(reg, data, i) ==
    IF i > Len(data) THEN reg
    ELSE CHOOSE r \in {RefFrom(next, data, i + 1) :
                           next \in {RefBits(reg, data[i], 7)}} : TRUE

ReferenceCrc(data) == RefFrom(65535, data, 1)

\* the inputs the two are compared on: every byte string of up to two bytes over
\* CrcBytes, and the ASCII digits "123456789", whose CRC16-CCITT is 0x29B1
CrcBytes == {0, 1, 3, 85, 128, 170, 255}
CrcInputs == UNION {[1 .. n -> CrcBytes] : n \in 0 .. 2}
CheckString == <<49, 50, 51, 52, 53, 54, 55, 56, 57>>

\* the payloads the encoder is compared on
CrcPayloads == UNION {[1 .. n -> {1, 85, 170}] : n \in 1 .. 2}

\* the two CRC bytes at the end of a frame, high byte first, as one number
FrameCrc(frame) == frame[Len(frame) - 1] * 256 + frame[Len(frame)]

\* a call of processByte that takes the low CRC byte
CrcLowStep == lastCall'.op = "processByte" /\ lastCall'.before.rxState = "READ_CRC_L"

\* C36: crc16_ccitt is the reference CRC16-CCITT (polynomial 0x1021, preset 0xFFFF,
\* most significant bit first, 16 bits wide) on every input, sendFrame appends the
\* reference CRC of the length byte followed by the payload, and processByte
\* accepts the low CRC byte exactly when the two CRC bytes are the reference CRC of
\* the announced length followed by the payload received; the sync bytes are in
\* neither.
C36_ReferenceCrc ==
    /\ \A data \in CrcInputs : crc16_ccitt(data) = ReferenceCrc(data)
    /\ crc16_ccitt(CheckString) = 10673
    /\ ReferenceCrc(CheckString) = 10673
    /\ \A payload \in CrcPayloads :
           FrameCrc(sendFrame(payload)) = ReferenceCrc(<<Len(payload)>> \o payload)
    /\ [][CrcLowStep =>
              LET u == lastCall'.before
                  received == u.rxCrc + lastCall'.byte
                  expected == ReferenceCrc(<<u.rxLen>> \o getPayload(u))
              IN  /\ (robustUart'.rxState = "FRAME_READY") = (received = expected)
                  /\ retLog'[Len(retLog')] = (received = expected)]_vars

\* a frame has been accepted on its low CRC byte, and one has been rejected on it
C36_Witness ==
    /\ lastCall.op = "processByte"
    /\ lastCall.before.rxState = "READ_CRC_L"
    /\ robustUart.rxState = "FRAME_READY"
    /\ robustUart.crcErrors > 0

(***************************************************************************)
(* C37                                                                     *)
(***************************************************************************)
\* C37: the command a driver run sends to the photovoltaic type is CMD_ON (orange)
\* when the solar coefficient is above SOLAR_ACTIVE_THRESHOLD (0.5), and the idle
\* command 0x03 (green) when it is zero or low or there is no API.
C37_SolarCommand ==
    [][RunFor(PHOTOVOLTAIC) =>
           SentTo(PHOTOVOLTAIC) =
               IF ~espApi'.null
                  /\ getProductionCoefficientForType(espApi', SOURCE_PHOTOVOLTAIC) > 50
               THEN CMD_ON ELSE CMD_BATTERY_IDLE]_vars

(***************************************************************************)
(* C38                                                                     *)
(***************************************************************************)
\* C38: every pending change targets a count strictly lower than the authoritative
\* count its type has now, so committing it cannot raise the count.
C38_TargetBelowCount ==
    \A j \in 1 .. Len(pendingDecreases) :
        pendingDecreases[j].targetAmount
            < findCurrentAmount(uartPowerplants, pendingDecreases[j].slaveType)

(***************************************************************************)
(* The clock-wrap specification: the reconciler, the driver throttle and   *)
(* the link health of a board that has been up for 2^32 - 500 ms, with a   *)
(* driver run, a status request and a response at that millisecond.        *)
(***************************************************************************)
WrapStart == <<65535, 65036>>           \* millis() = 2^32 - 500
WrapTickSteps == {250, 1500}
WrapReports == {<<>>, <<[slaveType |-> 1, amount |-> 2]>>, <<[slaveType |-> 1, amount |-> 1]>>}

WrapInit ==
    /\ millis = WrapStart
    /\ ticks = 0
    /\ uartPowerplants = <<>>
    /\ pendingDecreases = <<>>
    /\ lastUartAttractionUpdate = WrapStart
    /\ lastRetranslationPing = WrapStart
    /\ lastPingRequest = WrapStart
    /\ retranslationConnected = TRUE
    /\ serialNotices = [connected |-> 1, disconnected |-> 0]
    /\ robustUart = NewRobustUart
    /\ rxStream = <<>>
    /\ scenario = Scenario(<<>>, <<>>, 0, 0, <<>>, <<>>)
    /\ fed = 0
    /\ retLog = <<>>
    /\ lastCall = NoCall
    /\ powerPlants = <<>>
    /\ espApi = NullApi
    /\ uartTx = <<>>
    /\ loopTask = LoopIdle
    /\ ioTask = IoIdle
    /\ ioSeen = "nothing"

WrapParseSlaveInfo == ParseReport(WrapReports)

WrapTick == Advance(WrapTickSteps, MaxWrapTicks)

WrapNext ==
    \/ WrapParseSlaveInfo
    \/ UpdateAttractionStates
    \/ OnRetranslationPingReceived
    \/ UpdateRetranslationStatus
    \/ WrapTick

SpecWrap == WrapInit /\ [][WrapNext]_vars

(***************************************************************************)
(* C39                                                                     *)
(***************************************************************************)
\* the milliseconds that have really passed between the start of the behaviour and
\* the moment the clock showed stamp (the clock wraps once, from 65535:65535 to 0:0)
SinceStart(stamp) ==
    IF stamp[1] = WrapStart[1] THEN stamp[2] - WrapStart[2]
    ELSE stamp[1] * 65536 + stamp[2] + (65536 - WrapStart[2])

\* the milliseconds that have really passed since the clock showed stamp
Elapsed(stamp) == SinceStart(millis) - SinceStart(stamp)

Young(pd) == Elapsed(pd.firstSeen) < DECREASE_GRACE_MS

\* C39: across the wrap of the 32-bit clock every timing decision is the decision
\* on the time that has really elapsed: a pending change counts as expired exactly
\* when 500 ms have elapsed since it was staged, the driver is throttled exactly
\* when fewer than 200 ms have elapsed since its last run, the link times out
\* exactly when it is connected and more than 3000 ms have elapsed since the last
\* response, and a status request is throttled exactly when fewer than 2000 ms
\* have elapsed since the last one; a driver run removes exactly the pending
\* changes that are 500 ms old, a count only drops to the target of a pending
\* change that was 500 ms old, and a call that changes the pending set leaves no
\* pending change that is 500 ms old.
C39_WrapSafe ==
    /\ [](/\ \A j \in 1 .. Len(pendingDecreases) :
                 Expired(pendingDecreases[j], millis) = ~Young(pendingDecreases[j])
           /\ Throttled(millis, lastUartAttractionUpdate)
                 = (Elapsed(lastUartAttractionUpdate) < ATTRACTION_UPDATE_MS)
           /\ TimedOut(Link, millis)
                 = (retranslationConnected
                       /\ Elapsed(lastRetranslationPing) > RETRANSLATION_TIMEOUT_MS)
           /\ RequestThrottled(Link, millis)
                 = (Elapsed(lastPingRequest) < PING_REQUEST_INTERVAL_MS))
    /\ [][/\ (RunStep => pendingDecreases' = SelectSeq(pendingDecreases, Young))
           /\ (\A i \in 1 .. Len(uartPowerplants) :
                  uartPowerplants'[i].amount < uartPowerplants[i].amount
                      => (\E k \in 1 .. Len(pendingDecreases) :
                             /\ pendingDecreases[k].slaveType = uartPowerplants[i].slaveType
                             /\ pendingDecreases[k].targetAmount = uartPowerplants'[i].amount
                             /\ ~Young(pendingDecreases[k])))
           /\ (pendingDecreases' # pendingDecreases
                  => \A j \in 1 .. Len(pendingDecreases') :
                         Elapsed(pendingDecreases'[j].firstSeen) < DECREASE_GRACE_MS)]_vars

\* the clock has wrapped, the driver has run since, and a change staged before the
\* wrap is still pending
C39_Witness ==
    /\ millis[1] = 0
    /\ lastUartAttractionUpdate[1] = 0
    /\ \E j \in 1 .. Len(pendingDecreases) : pendingDecreases[j].firstSeen[1] = WrapStart[1]

(***************************************************************************)
(* C40                                                                     *)
(***************************************************************************)
InReadLen == [NewRobustUart EXCEPT !.rxState = "READ_LEN"]

\* a decoder that is about to take the last byte of the longest payload
LastOfLongest ==
    [NewRobustUart EXCEPT !.rxState = "READ_PAYLOAD", !.rxLen = MAX_PAYLOAD_SIZE,
                          !.rxIndex = MAX_PAYLOAD_SIZE - 1]

InsideBuffer(u) == u.rxIndex <= u.rxLen /\ u.rxLen <= MAX_PAYLOAD_SIZE

\* a call of processByte that stores a payload byte
PayloadWrite == lastCall'.op = "processByte" /\ lastCall'.before.rxState = "READ_PAYLOAD"

\* C40: the write index never exceeds the announced length and the announced length
\* never exceeds 250: READ_LEN takes the lengths 1 .. 250 and no other byte value,
\* the last byte of a 250-byte payload ends the payload, every payload byte is
\* stored at an index below the announced length, and a frame is reported only
\* with a length in 1 .. 250.
C40_InsideBuffer ==
    /\ \A byte \in 0 .. 255 :
           LET r == processByte(InReadLen, byte)
           IN  /\ InsideBuffer(r.u)
               /\ r.u.rxState = IF byte \in 1 .. MAX_PAYLOAD_SIZE THEN "READ_PAYLOAD"
                                                                 ELSE "WAIT_SYNC1"
               /\ r.u.rxLen = IF byte \in 1 .. MAX_PAYLOAD_SIZE THEN byte ELSE 0
    /\ LET r == processByte(LastOfLongest, 1)
       IN  InsideBuffer(r.u) /\ r.u.rxState = "READ_CRC_H"
    /\ [](/\ InsideBuffer(robustUart)
           /\ robustUart.rxState = "FRAME_READY"
                 => robustUart.rxLen \in 1 .. MAX_PAYLOAD_SIZE)
    /\ [][/\ (PayloadWrite => /\ lastCall'.before.rxIndex < lastCall'.before.rxLen
                               /\ lastCall'.before.rxIndex < MAX_PAYLOAD_SIZE)
           /\ (retLog' # retLog /\ retLog'[Len(retLog')]
                  => getPayloadLength(robustUart') \in 1 .. MAX_PAYLOAD_SIZE)]_vars

\* a length announced by line noise is being filled
C40_Witness ==
    /\ robustUart.rxState = "READ_PAYLOAD"
    /\ robustUart.rxLen > MaxPayloadLen
    /\ robustUart.rxIndex > 0

====
